---- MODULE Spec2Model ----
(***************************************************************************)
(* A model of lib/BuildSystem/BuildSystem.cpp of llbuild: the build        *)
(* system's tasks (TargetTask, InputNodeTask, ProducedNodeTask,            *)
(* CommandTask, MissingCommandTask), its rule factory, BuildSystemImpl::   *)
(* build, and the built-in commands (phony, shell, clang, mkdir).          *)
(*                                                                         *)
(* The build engine (lib/Core/BuildEngine.cpp), the ExternalCommand base   *)
(* class, the execution queue and the hash function are not part of        *)
(* BuildSystem.cpp; they are modelled from the specification's            *)
(* description of them.                                                    *)
(***************************************************************************)
EXTENDS Integers, Sequences, FiniteSets, TLC

VARIABLES
    \* BuildSystemImpl and its delegate
    buildPc,          \* "idle" | "engine" | "draining": position inside build()
    buildNo,          \* number of build() calls that have returned
    root,             \* the target name passed to the running / last build()
    buildResult,      \* what the last build() returned: "none" | "ok" | "failed"
    executionQueue,   \* BuildSystemImpl::executionQueue is non-null
    queueAlive,       \* the BuildExecutionQueue object exists
    cancelled,        \* delegate.isCancelled()
    errors,           \* delegate.error() calls of this build, in order
    failures,         \* number of delegate.hadCommandFailure() calls of this build
    \* the world
    fs,               \* path -> FileInfo
    \* the engine (in-memory results / attached database)
    cache,            \* key -> [has, value, deps]
    dynamicNodes,     \* name -> node objects made for it in the dynamicNodes table
    st,               \* key -> "idle" | "scanning" | "waiting" | "running" | "done"
    requested,        \* key -> sequence of keys the task asked for (input id = index - 1)
    delivered,        \* key -> set of indexes whose value was provided
    changed,          \* key -> the key's value changed in this build
    discovered,       \* key -> keys registered by taskDiscoveredDependency
    completions,      \* key -> number of taskIsComplete calls in this build
    \* task members
    hasMissingInput,  \* TargetTask::hasMissingInput
    nodeResult,       \* ProducedNodeTask::nodeResult
    isInvalid,        \* ProducedNodeTask::isInvalid
    assertFailed,     \* the assert()s of the code that have failed
    \* execution queue jobs
    jobPc,            \* command -> "none" | "queued" | "ran" | "exiting"
    jobOk,            \* command -> the body's result
    ev,               \* command -> what its job did on the worker, in order
    \* history of the run
    iaCancelled,      \* command -> isCancelled() at its inputsAvailable
    quiet,            \* nothing outside the build system changed since the last build
    lastBuild,        \* how the last build() went: "none" | "loadfail" | "failed" | "clean"
    prevRoot,         \* the target of the last build
    touched,          \* the path changed from outside since the last build, or "none"
    prevTouched,      \* the path changed from outside before the last build, or "none"
    \* the inputs of the pure functions (specification PureSpec)
    pin, pout,
    \* the build file
    mf,
    \* rule lookup on its own (specification LookupSpec)
    customTasks,      \* the delegate's list of the commands made for custom tasks
    toolAccepts,      \* the <<tool, key>> pairs a tool of the build file makes a command for
    rules             \* the rule the last lookup of a key returned

buildVars == <<buildPc, buildNo, root, buildResult, executionQueue, queueAlive,
               cancelled, errors, failures>>
engineVars == <<cache, dynamicNodes, st, requested, delivered, changed,
                discovered, completions>>
taskVars == <<hasMissingInput, nodeResult, isInvalid, assertFailed>>
jobVars == <<jobPc, jobOk, ev>>
histVars == <<iaCancelled, quiet, lastBuild, prevRoot, touched, prevTouched>>
pureVars == <<pin, pout>>
lookupVars == <<customTasks, toolAccepts, rules>>
fixedVars == <<mf, pin, pout, lookupVars>>
vars == <<buildVars, fs, engineVars, taskVars, jobVars, histVars, fixedVars>>

(***************************************************************************)
(* Bounds                                                                  *)
(***************************************************************************)
\* the calls of build() a run makes
MaxBuilds == 2
\* the first builds of a run, which the delegate may cancel
MaxCancelledBuilds == 1
\* the longest list of arguments of a shell command
MaxArgs == 2

(***************************************************************************)
(* The manifests that are built.  mf names the build file the system was   *)
(* constructed with; each has the target "all".                            *)
(*   "flat":  mk : mkdir            -> dir                                 *)
(*            all: dir src           (src has no producer)                 *)
(*   "chain": cc : clang  src       -> obj   (its deps file names hdr)     *)
(*            ld : shell  obj       -> exe                                 *)
(*            all: exe                                                     *)
(*   "cycle": cc : clang  exe       -> obj                                 *)
(*            ld : shell  obj       -> exe   (exe needs obj, obj needs exe)*)
(*            all: exe                                                     *)
(*   "dup":   cc : clang  src       -> exe                                 *)
(*            ld : shell  obj       -> exe   (two producers of exe)        *)
(*            all: exe                                                     *)
(* The key Command("old") stands for a command that an earlier manifest    *)
(* declared and that the attached database still refers to.                *)
(***************************************************************************)
Manifests == {"flat", "chain", "cycle", "dup"}
TargetNames == {"all"}
AllCommands == {"mk", "cc", "ld"}
NodeNames == {"src", "obj", "dir", "exe", "hdr"}
Paths == NodeNames

\* getBuildFile().getCommands()
CommandNames == IF mf = "flat" THEN {"mk"} ELSE {"cc", "ld"}

\* getBuildFile().getNodes()
DeclaredNodes ==
    CASE mf = "flat" -> {"src", "dir"}
      [] mf = "cycle" -> {"obj", "exe"}
      [] OTHER -> {"src", "obj", "exe"}

\* target.getNodes()
TargetNodes(t) == IF mf = "flat" THEN <<"dir", "src">> ELSE <<"exe">>

Tool(c) == CASE c = "mk" -> "mkdir" [] c = "cc" -> "clang" [] OTHER -> "shell"

Inputs(c) ==
    CASE c = "cc" -> IF mf = "cycle" THEN <<"exe">> ELSE <<"src">>
      [] c = "ld" -> <<"obj">>
      [] OTHER -> <<>>

Outputs(c) ==
    CASE c = "mk" -> <<"dir">>
      [] c = "cc" -> IF mf = "dup" THEN <<"exe">> ELSE <<"obj">>
      [] OTHER -> <<"exe">>

ShellArgs(c) == <<"a", "b">>

ClangArgs(c) == "cc -c"

DepsPath(c) == IF c = "cc" THEN "obj.d" ELSE ""

DepsInFile(c) == {"hdr"}

CommandOrder == <<"mk", "cc", "ld">>

Range(s) == {s[i] : i \in 1..Len(s)}

\* node.getProducers(): the commands that declare the node as an output
Producers(n) ==
    SelectSeq(CommandOrder, LAMBDA c : c \in CommandNames /\ n \in Range(Outputs(c)))

KTarget(t) == [kind |-> "Target", name |-> t]
KNode(n) == [kind |-> "Node", name |-> n]
KCommand(c) == [kind |-> "Command", name |-> c]

Keys == {KTarget(t) : t \in TargetNames} \cup {KNode(n) : n \in NodeNames}
        \cup {KCommand(c) : c \in AllCommands \cup {"old"}}

(***************************************************************************)
(* FileInfo and BuildValue                                                 *)
(***************************************************************************)
MissingInfo == [kind |-> "missing", mtime |-> 0]
FileOf(m) == [kind |-> "file", mtime |-> m]
DirOf(m) == [kind |-> "dir", mtime |-> m]

isMissing(info) == info.kind = "missing"
isDirectory(info) == info.kind = "dir"

\* node.getFileInfo(fileSystem)
getFileInfo(fsys, path) == fsys[path]

MkValue(k) == [kind |-> k, info |-> <<>>, sig |-> 0]
makeInvalid == MkValue("Invalid")
makeVirtualInput == MkValue("VirtualInput")
makeMissingInput == MkValue("MissingInput")
makeFailedInput == MkValue("FailedInput")
makeFailedCommand == MkValue("FailedCommand")
makeSkippedCommand == MkValue("SkippedCommand")
makeTarget == MkValue("Target")
makeExistingInput(info) == [kind |-> "ExistingInput", info |-> <<info>>, sig |-> 0]
makeSuccessfulCommand(infos, sig) == [kind |-> "SuccessfulCommand", info |-> infos, sig |-> sig]

(***************************************************************************)
(* Names as character sequences, and the virtual-node rule                 *)
(***************************************************************************)
NameChars(n) ==
    CASE n = "src" -> <<"s", "r", "c">>
      [] n = "obj" -> <<"o", "b", "j">>
      [] n = "dir" -> <<"d", "i", "r">>
      [] n = "exe" -> <<"e", "x", "e">>
      [] n = "<in>" -> <<"<", "i", "n", ">">>
      [] OTHER -> <<"h", "d", "r">>

\* a lookupNode that looks at the first character of the name only
lookupNode_isVirtual_OpenOnly(chars, isImplicit) ==
    Len(chars) # 0 /\ chars[1] = "<"

\* BuildSystemImpl::lookupNode: the isVirtual flag of the node it creates
lookupNode_isVirtual(chars, isImplicit) ==
    Len(chars) # 0 /\ chars[1] = "<" /\ chars[Len(chars)] = ">"

isVirtual(n) == lookupNode_isVirtual(NameChars(n), n \notin DeclaredNodes)

(***************************************************************************)
(* Signatures                                                              *)
(***************************************************************************)
RECURSIVE Xor(_, _)
Xor(a, b) ==
    IF a = 0 THEN b
    ELSE IF b = 0 THEN a
    ELSE ((a + b) % 2) + 2 * Xor(a \div 2, b \div 2)

\* basic::hashString on the strings of the model: distinct 64-bit values
hashString(s) ==
    CASE s = "src" -> 11 [] s = "obj" -> 22 [] s = "dir" -> 37 [] s = "exe" -> 56
      [] s = "hdr" -> 69 [] s = "a" -> 131 [] s = "b" -> 262 [] s = "c" -> 525
      [] s = "cc -c" -> 1033 [] s = "cc -O" -> 2090
      [] OTHER -> 4099

RECURSIVE XorHashes(_)
XorHashes(names) ==
    IF names = <<>> THEN 0
    ELSE Xor(hashString(Head(names)), XorHashes(Tail(names)))

\* ExternalCommand::getSignature: a fold of the input and the output names
ExternalCommand_getSignature(ins, outs) == Xor(XorHashes(ins), XorHashes(outs))

\* ShellCommand::getSignature
ShellCommand_getSignature(ins, outs, args) ==
    Xor(ExternalCommand_getSignature(ins, outs), XorHashes(args))

\* ClangShellCommand::getSignature
ClangShellCommand_getSignature(ins, outs, args) ==
    Xor(ExternalCommand_getSignature(ins, outs), hashString(args))

\* MkdirCommand::getSignature
MkdirCommand_getSignature(output) == hashString(output)

\* what the build file configures for a command
Config(c) ==
    [ins |-> Inputs(c), outs |-> Outputs(c),
     args |-> IF Tool(c) = "clang" THEN ClangArgs(c) ELSE ShellArgs(c)]

\* Command::getSignature, by the tool that made the command
Command_getSignature(tool, cfg) ==
    CASE tool = "mkdir" -> MkdirCommand_getSignature(cfg.outs[1])
      [] tool = "clang" -> ClangShellCommand_getSignature(cfg.ins, cfg.outs, cfg.args)
      [] tool = "shell" -> ShellCommand_getSignature(cfg.ins, cfg.outs, cfg.args)
      [] OTHER -> ExternalCommand_getSignature(cfg.ins, cfg.outs)

getSignature(c) == Command_getSignature(Tool(c), Config(c))

(***************************************************************************)
(* Validity predicates                                                     *)
(***************************************************************************)
\* ExternalCommand::isResultValid
ExternalCommand_isResultValid(sig, outs, value, fsys) ==
    /\ value.kind = "SuccessfulCommand"
    /\ value.sig = sig
    /\ Len(value.info) = Len(outs)
    /\ \A i \in 1..Len(outs) :
          /\ ~isMissing(getFileInfo(fsys, outs[i]))
          /\ getFileInfo(fsys, outs[i]) = value.info[i]

\* a validity routine that takes an existing directory for a reason to rerun
MkdirCommand_isResultValid_Inverted(output, value, fsys) ==
    IF value.kind # "SuccessfulCommand" THEN FALSE
    ELSE IF isMissing(getFileInfo(fsys, output)) THEN FALSE
    ELSE IF isDirectory(getFileInfo(fsys, output)) THEN FALSE
    ELSE TRUE

\* a validity routine that also compares the stored FileInfo with the disk
MkdirCommand_isResultValid_InfoCompared(output, value, fsys) ==
    IF value.kind # "SuccessfulCommand" THEN FALSE
    ELSE IF isMissing(getFileInfo(fsys, output)) THEN FALSE
    ELSE IF ~isDirectory(getFileInfo(fsys, output)) THEN FALSE
    ELSE value.info[1] = getFileInfo(fsys, output)

\* a validity routine that trusts the stored value without looking at the disk
MkdirCommand_isResultValid_Unchecked(output, value, fsys) ==
    IF value.kind # "SuccessfulCommand" THEN FALSE ELSE TRUE

\* MkdirCommand::isResultValid
MkdirCommand_isResultValid(output, value, fsys) ==
    IF value.kind # "SuccessfulCommand" THEN FALSE
    ELSE IF isMissing(getFileInfo(fsys, output)) THEN FALSE
    ELSE IF ~isDirectory(getFileInfo(fsys, output)) THEN FALSE
    ELSE TRUE

\* Command::isResultValid, by the tool that made the command
Command_isResultValid(tool, cfg, value, fsys) ==
    IF tool = "mkdir"
    THEN MkdirCommand_isResultValid(cfg.outs[1], value, fsys)
    ELSE ExternalCommand_isResultValid(Command_getSignature(tool, cfg), cfg.outs,
                                       value, fsys)

\* CommandTask::isResultValid
CommandTask_isResultValid(c, value, fsys) ==
    Command_isResultValid(Tool(c), Config(c), value, fsys)

\* a validity routine that accepts the value a target task completes with
TargetTask_isResultValid_TargetValue(t, value) == value.kind = "Target"

\* TargetTask::isResultValid
TargetTask_isResultValid(t, value) == FALSE

\* a validity routine that compares the kind of the stored value only
InputNodeTask_isResultValid_KindOnly(n, value, fsys) ==
    IF isVirtual(n) THEN value.kind = "VirtualInput"
    ELSE IF isMissing(getFileInfo(fsys, n)) THEN value.kind = "MissingInput"
    ELSE value.kind = "ExistingInput"

\* InputNodeTask::isResultValid
InputNodeTask_isResultValid(n, value, fsys) ==
    IF isVirtual(n) THEN value.kind = "VirtualInput"
    ELSE IF isMissing(getFileInfo(fsys, n)) THEN value.kind = "MissingInput"
    ELSE value.kind = "ExistingInput" /\ value.info[1] = getFileInfo(fsys, n)

\* InputNodeTask::inputsAvailable: the value the task of input node n
\* completes with on the filesystem fsys
InputNodeTask_value(n, fsys) ==
    IF isVirtual(n) THEN makeVirtualInput
    ELSE IF isMissing(getFileInfo(fsys, n)) THEN makeMissingInput
    ELSE makeExistingInput(getFileInfo(fsys, n))

\* a validity routine that accepts every stored value of a produced node
ProducedNodeTask_isResultValid_Always(n, value) == TRUE

\* ProducedNodeTask::isResultValid
ProducedNodeTask_isResultValid(n, value) ==
    IF value.kind = "FailedInput" THEN FALSE ELSE TRUE

\* a rule factory that builds every node as an input
RuleKind_NodesAreInputs(k) ==
    CASE k.kind = "Command" ->
            IF k.name \notin CommandNames THEN "MissingCommandTask" ELSE "CommandTask"
      [] k.kind = "Node" -> "InputNodeTask"
      [] OTHER -> "TargetTask"

\* BuildSystemEngineDelegate::lookupRule: the task the rule of a key creates
RuleKind(k) ==
    CASE k.kind = "Command" ->
            IF k.name \notin CommandNames THEN "MissingCommandTask" ELSE "CommandTask"
      [] k.kind = "Node" ->
            IF Producers(k.name) = <<>> THEN "InputNodeTask" ELSE "ProducedNodeTask"
      [] OTHER -> "TargetTask"

\* BuildSystemEngineDelegate::lookupRule: the rule's validity predicate
RuleIsValid(k, value, fsys) ==
    CASE RuleKind(k) = "MissingCommandTask" -> FALSE
      [] RuleKind(k) = "CommandTask" -> CommandTask_isResultValid(k.name, value, fsys)
      [] RuleKind(k) = "InputNodeTask" -> InputNodeTask_isResultValid(k.name, value, fsys)
      [] RuleKind(k) = "ProducedNodeTask" -> ProducedNodeTask_isResultValid(k.name, value)
      [] OTHER -> TargetTask_isResultValid(k.name, value)

(***************************************************************************)
(* Initial state: a build system that has built nothing, on a filesystem   *)
(* that may or may not hold the source file and may hold a regular file    *)
(* where mkdir wants its directory; the database is empty or was written   *)
(* under an earlier manifest in which "old" produced exe, by a build under *)
(* the present manifest that stopped after Command("old") had completed    *)
(* and before exe was built again.                                         *)
(***************************************************************************)
NoResult == [has |-> FALSE, value |-> makeInvalid, deps |-> {}]

EmptyCache == [k \in Keys |-> NoResult]

StaleCache ==
    [EmptyCache EXCEPT
        ![KNode("exe")] =
            [has |-> TRUE, value |-> makeExistingInput(FileOf(0)), deps |-> {KCommand("old")}],
        ![KCommand("old")] = [has |-> TRUE, value |-> makeInvalid, deps |-> {}]]

FileSystem(s, d) ==
    [p \in Paths |-> CASE p = "src" -> s [] p = "dir" -> d [] p = "hdr" -> FileOf(0)
                       [] OTHER -> MissingInfo]

\* the build file, the filesystem and the database a build system starts with
ColdWorlds ==
    {<<"flat", FileSystem(FileOf(0), MissingInfo), EmptyCache, "none">>,
     <<"flat", FileSystem(MissingInfo, FileOf(0)), EmptyCache, "none">>,
     <<"chain", FileSystem(FileOf(0), MissingInfo), StaleCache, "none">>,
     <<"cycle", FileSystem(FileOf(0), MissingInfo), EmptyCache, "none">>,
     <<"dup", FileSystem(FileOf(0), MissingInfo), EmptyCache, "none">>}

Stored(value, deps) == [has |-> TRUE, value |-> value, deps |-> deps]

\* the database and the files an earlier clean build of "chain" left behind
BuiltChainCache ==
    [k \in Keys |->
        CASE k = KTarget("all") -> Stored(makeTarget, {KNode("exe")})
          [] k = KNode("exe") -> Stored(makeExistingInput(FileOf(0)), {KCommand("ld")})
          [] k = KCommand("ld") ->
                Stored(makeSuccessfulCommand(<<FileOf(0)>>,
                           ShellCommand_getSignature(<<"obj">>, <<"exe">>, <<"a", "b">>)),
                       {KNode("obj")})
          [] k = KNode("obj") -> Stored(makeExistingInput(FileOf(0)), {KCommand("cc")})
          [] k = KCommand("cc") ->
                Stored(makeSuccessfulCommand(<<FileOf(0)>>,
                           ClangShellCommand_getSignature(<<"src">>, <<"obj">>, "cc -c")),
                       {KNode("src"), KNode("hdr")})
          [] k \in {KNode("src"), KNode("hdr")} ->
                Stored(makeExistingInput(FileOf(0)), {})
          [] OTHER -> NoResult]

BuiltChainFiles ==
    [p \in Paths |-> IF p = "dir" THEN MissingInfo ELSE FileOf(0)]

\* the database and the files an earlier clean build of "flat" left behind
BuiltFlatCache ==
    [k \in Keys |->
        CASE k = KTarget("all") -> Stored(makeTarget, {KNode("dir"), KNode("src")})
          [] k = KNode("dir") -> Stored(makeExistingInput(DirOf(0)), {KCommand("mk")})
          [] k = KCommand("mk") ->
                Stored(makeSuccessfulCommand(<<DirOf(0)>>, MkdirCommand_getSignature("dir")),
                       {})
          [] k = KNode("src") -> Stored(makeExistingInput(FileOf(0)), {})
          [] OTHER -> NoResult]

BuiltFlatFiles == FileSystem(FileOf(0), DirOf(0))

\* a build system attached to the database of an earlier run that built the
\* same build file cleanly
WarmWorlds ==
    {<<"chain", BuiltChainFiles, BuiltChainCache, "clean">>,
     <<"flat", BuiltFlatFiles, BuiltFlatCache, "clean">>}

\* the build file, the filesystem and the database a build system starts with,
\* and how the last build of an earlier run went
InitialWorlds == ColdWorlds \cup WarmWorlds

EngineIdle ==
    /\ st = [k \in Keys |-> "idle"]
    /\ requested = [k \in Keys |-> <<>>]
    /\ delivered = [k \in Keys |-> {}]
    /\ changed = [k \in Keys |-> FALSE]
    /\ discovered = [k \in Keys |-> {}]
    /\ completions = [k \in Keys |-> 0]
    /\ hasMissingInput = [k \in Keys |-> FALSE]
    /\ nodeResult = [k \in Keys |-> makeInvalid]
    /\ isInvalid = [k \in Keys |-> FALSE]
    /\ assertFailed = {}
    /\ jobPc = [c \in AllCommands |-> "none"]
    /\ jobOk = [c \in AllCommands |-> FALSE]
    /\ ev = [c \in AllCommands |-> <<>>]
    /\ iaCancelled = [c \in AllCommands |-> FALSE]
    /\ errors = [k \in Keys |-> <<>>]
    /\ failures = 0
    /\ cancelled = FALSE

\* every task, job and per-build record of the delegate starts afresh
EngineReset ==
    /\ st' = [k \in Keys |-> "idle"]
    /\ requested' = [k \in Keys |-> <<>>]
    /\ delivered' = [k \in Keys |-> {}]
    /\ changed' = [k \in Keys |-> FALSE]
    /\ discovered' = [k \in Keys |-> {}]
    /\ completions' = [k \in Keys |-> 0]
    /\ hasMissingInput' = [k \in Keys |-> FALSE]
    /\ nodeResult' = [k \in Keys |-> makeInvalid]
    /\ isInvalid' = [k \in Keys |-> FALSE]
    /\ assertFailed' = {}
    /\ jobPc' = [c \in AllCommands |-> "none"]
    /\ jobOk' = [c \in AllCommands |-> FALSE]
    /\ ev' = [c \in AllCommands |-> <<>>]
    /\ iaCancelled' = [c \in AllCommands |-> FALSE]
    /\ errors' = [k \in Keys |-> <<>>]
    /\ failures' = 0
    /\ cancelled' = FALSE

BuildInitIn(worlds) ==
    /\ buildPc = "idle"
    /\ buildNo = 0
    /\ root = "all"
    /\ buildResult = "none"
    /\ executionQueue = FALSE
    /\ queueAlive = FALSE
    /\ \E w \in worlds :
          /\ mf = w[1] /\ fs = w[2] /\ cache = w[3]
          /\ lastBuild = w[4]
          /\ quiet = (w[4] # "none")
    /\ dynamicNodes = [n \in NodeNames |-> 0]
    /\ EngineIdle
    /\ prevRoot = "all"
    /\ touched = "none"
    /\ prevTouched = "none"

\* a build system constructed on an empty or an outdated database
BuildInit == BuildInitIn(ColdWorlds)

\* the names of the custom tasks a client asks for
CustomTaskNames == {"gen", "link"}

\* a target name no build file declares
UndeclaredTarget == "nosuch"

KCustomTask(n) == [kind |-> "CustomTask", name |-> n]
KUnknown == [kind |-> "Unknown", name |-> ""]

\* the keys whose rule is looked up on its own
LookupKeys ==
    {KCustomTask(n) : n \in CustomTaskNames} \cup
    {KTarget(t) : t \in TargetNames \cup {UndeclaredTarget}} \cup {KUnknown}

\* no rule: the key has not been looked up, or its lookup did not return
NoRule == [task |-> "none", isValid |-> "none", command |-> 0]

\* the null pointer a tool returns for a key it makes no command for
NullCommand == [tool |-> "none", key |-> "none"]

LookupIdle ==
    /\ customTasks = <<>>
    /\ toolAccepts = {}
    /\ rules = [k \in LookupKeys |-> NoRule]

PureIdle == pin = <<>> /\ pout = <<>> /\ LookupIdle

Init == BuildInit /\ PureIdle

\* a build system constructed on any of the databases, those of an earlier
\* clean build included
WarmInit == BuildInitIn(InitialWorlds) /\ PureIdle

(***************************************************************************)
(* BuildSystemImpl::build                                                  *)
(***************************************************************************)
\* the stamp of a file written during the running build / between builds
BuildStamp == 2 * (buildNo + 1)
ExternalStamp == 2 * buildNo + 1

\* a build() that reports the load failure and goes on to create the queue
BuildLoadFail_FallsThrough(t) ==
    /\ buildPc = "idle"
    /\ buildNo < MaxBuilds
    /\ root' = t
    /\ errors' = [k \in Keys |->
                     IF k = KTarget(t)
                     THEN <<[msg |-> "unable to load build file", name |-> ""]>>
                     ELSE <<>>]
    /\ failures' = 0
    /\ buildResult' = "failed"
    /\ buildNo' = buildNo + 1
    /\ executionQueue' = TRUE
    /\ queueAlive' = TRUE
    /\ lastBuild' = "loadfail"
    /\ prevRoot' = t
    /\ quiet' = TRUE
    /\ touched' = "none"
    /\ prevTouched' = touched
    /\ UNCHANGED <<buildPc, cancelled, fs, engineVars, taskVars, jobVars, iaCancelled,
                   fixedVars>>

\* build(): the build file fails to load
BuildLoadFail(t) ==
    /\ buildPc = "idle"
    /\ buildNo < MaxBuilds
    /\ root' = t
    /\ errors' = [k \in Keys |->
                     IF k = KTarget(t)
                     THEN <<[msg |-> "unable to load build file", name |-> ""]>>
                     ELSE <<>>]
    /\ failures' = 0
    /\ buildResult' = "failed"
    /\ buildNo' = buildNo + 1
    /\ lastBuild' = "loadfail"
    /\ prevRoot' = t
    /\ quiet' = TRUE
    /\ touched' = "none"
    /\ prevTouched' = touched
    /\ UNCHANGED <<buildPc, executionQueue, queueAlive, cancelled, fs, engineVars,
                   taskVars, jobVars, iaCancelled, fixedVars>>

\* build(): the build file loads, the execution queue is created and the
\* engine is asked for the target
BuildStart(t) ==
    /\ buildPc = "idle"
    /\ buildNo < MaxBuilds
    /\ root' = t
    /\ buildPc' = "engine"
    /\ buildResult' = "none"
    /\ executionQueue' = TRUE
    /\ queueAlive' = TRUE
    /\ EngineReset
    /\ UNCHANGED <<buildNo, fs, cache, dynamicNodes, quiet, lastBuild, prevRoot, touched,
                   prevTouched, fixedVars>>

\* the engine: a key is wanted by the running build
Demanded(k) ==
    \/ k = KTarget(root)
    \/ \E p \in Keys : st[p] = "waiting" /\ k \in Range(requested[p])
    \/ \E p \in Keys : st[p] = "scanning" /\ k \in cache[p].deps
    \/ \E p \in Keys : st[p] = "done" /\ k \in discovered[p]

\* the engine has reported a cycle to its delegate and given the build up
CycleReported ==
    \E i \in 1..Len(errors[KTarget(root)]) :
        errors[KTarget(root)][i].msg = "cycle detected while building"

\* every command the last build demanded ended as a successful command
AllCommandsSucceeded ==
    \A c \in CommandNames :
        st[KCommand(c)] # "idle" => cache[KCommand(c)].value.kind = "SuccessfulCommand"

\* a build() that leaves the queue's pointer set when the engine has returned
BuildReset_KeepsQueue ==
    /\ buildPc = "engine"
    /\ CycleReported \/ \A k \in Keys : Demanded(k) => st[k] = "done"
    /\ buildPc' = "draining"
    /\ UNCHANGED <<buildNo, root, buildResult, executionQueue, queueAlive, cancelled,
                   errors, failures, fs, engineVars, taskVars, jobVars, histVars, fixedVars>>

\* a build() that releases the queue without waiting for the engine
BuildReset_Unawaited ==
    /\ buildPc = "engine"
    /\ buildPc' = "draining"
    /\ executionQueue' = FALSE
    /\ UNCHANGED <<buildNo, root, buildResult, queueAlive, cancelled, errors, failures,
                   fs, engineVars, taskVars, jobVars, histVars, fixedVars>>

\* build(): the engine has returned; executionQueue.reset() clears the pointer
\* and then runs the queue's destructor
BuildReset ==
    /\ buildPc = "engine"
    /\ CycleReported \/ \A k \in Keys : Demanded(k) => st[k] = "done"
    /\ buildPc' = "draining"
    /\ executionQueue' = FALSE
    /\ UNCHANGED <<buildNo, root, buildResult, queueAlive, cancelled, errors, failures,
                   fs, engineVars, taskVars, jobVars, histVars, fixedVars>>

\* build(): the queue's destructor has waited for every job; return true
BuildReturn ==
    /\ buildPc = "draining"
    /\ \A c \in CommandNames : jobPc[c] = "none"
    /\ queueAlive' = FALSE
    /\ buildPc' = "idle"
    /\ buildResult' = "ok"
    /\ buildNo' = buildNo + 1
    /\ quiet' = TRUE
    /\ lastBuild' = IF AllCommandsSucceeded THEN "clean" ELSE "failed"
    /\ prevRoot' = root
    /\ touched' = "none"
    /\ prevTouched' = touched
    /\ UNCHANGED <<root, executionQueue, cancelled, errors, failures, fs, engineVars,
                   taskVars, jobVars, iaCancelled, fixedVars>>

\* the delegate starts to report cancellation
Cancel ==
    /\ buildPc = "engine"
    /\ ~cancelled
    /\ buildNo < MaxCancelledBuilds
    /\ cancelled' = TRUE
    /\ UNCHANGED <<buildPc, buildNo, root, buildResult, executionQueue, queueAlive,
                   errors, failures, fs, engineVars, taskVars, jobVars, histVars, fixedVars>>

\* between two builds somebody rewrites or removes a file
ExternalWrite(p) ==
    /\ buildPc = "idle"
    /\ lastBuild # "none"
    /\ buildNo < MaxBuilds
    /\ quiet
    /\ fs' = [fs EXCEPT ![p] = FileOf(ExternalStamp)]
    /\ quiet' = FALSE
    /\ touched' = p
    /\ UNCHANGED <<buildVars, engineVars, taskVars, jobVars, iaCancelled, lastBuild,
                   prevRoot, prevTouched, fixedVars>>

ExternalDelete(p) ==
    /\ buildPc = "idle"
    /\ lastBuild # "none"
    /\ buildNo < MaxBuilds
    /\ quiet
    /\ ~isMissing(fs[p])
    /\ fs' = [fs EXCEPT ![p] = MissingInfo]
    /\ quiet' = FALSE
    /\ touched' = p
    /\ UNCHANGED <<buildVars, engineVars, taskVars, jobVars, iaCancelled, lastBuild,
                   prevRoot, prevTouched, fixedVars>>

(***************************************************************************)
(* The engine's side of the task protocol                                  *)
(***************************************************************************)
Err(m, n) == [msg |-> m, name |-> n]

\* BuildEngine::taskIsComplete: the key's result is stored with the inputs the
\* task asked for and discovered; the value counts as changed when it is new,
\* differs from the stored one, or forceChange is set
taskIsComplete(k, value, forceChange) ==
    /\ st' = [st EXCEPT ![k] = "done"]
    /\ changed' = [changed EXCEPT
                     ![k] = forceChange \/ ~cache[k].has \/ cache[k].value # value]
    /\ cache' = [cache EXCEPT
                   ![k] = [has |-> TRUE, value |-> value,
                           deps |-> Range(requested[k]) \cup discovered[k]]]
    /\ completions' = [completions EXCEPT ![k] = @ + 1]

\* TargetTask::start
TargetTask_start(k) ==
    /\ requested' = [requested EXCEPT
          ![k] = [i \in 1..Len(TargetNodes(k.name)) |-> KNode(TargetNodes(k.name)[i])]]
    /\ UNCHANGED <<isInvalid, errors, assertFailed>>

\* InputNodeTask::start
InputNodeTask_start(k) ==
    /\ assertFailed' = IF Producers(k.name) = <<>> THEN assertFailed
                       ELSE assertFailed \cup {"InputNodeTask::start"}
    /\ UNCHANGED <<requested, isInvalid, errors>>

\* a start that asks for the first producer however many there are
ProducedNodeTask_start_FirstProducer(k) ==
    /\ requested' = [requested EXCEPT ![k] = <<KCommand(Producers(k.name)[1])>>]
    /\ UNCHANGED <<isInvalid, errors, assertFailed>>

\* ProducedNodeTask::start
ProducedNodeTask_start(k) ==
    IF Len(Producers(k.name)) = 1
    THEN /\ requested' = [requested EXCEPT ![k] = <<KCommand(Producers(k.name)[1])>>]
         /\ UNCHANGED <<isInvalid, errors, assertFailed>>
    ELSE /\ errors' = [errors EXCEPT
                          ![k] = Append(@, Err("unable to build node",
                                               <<k.name, Producers(k.name)[1],
                                                 Producers(k.name)[2]>>))]
         /\ isInvalid' = [isInvalid EXCEPT ![k] = TRUE]
         /\ UNCHANGED <<requested, assertFailed>>

\* MissingCommandTask::start
MissingCommandTask_start(k) ==
    UNCHANGED <<requested, isInvalid, errors, assertFailed>>

\* MkdirCommand::start
MkdirCommand_start(k) ==
    UNCHANGED <<requested, isInvalid, errors, assertFailed>>

\* ExternalCommand::start: the declared inputs are requested, in order
ExternalCommand_start(k) ==
    /\ requested' = [requested EXCEPT
          ![k] = [i \in 1..Len(Inputs(k.name)) |-> KNode(Inputs(k.name)[i])]]
    /\ UNCHANGED <<isInvalid, errors, assertFailed>>

\* CommandTask::start
CommandTask_start(k) ==
    IF Tool(k.name) = "mkdir" THEN MkdirCommand_start(k) ELSE ExternalCommand_start(k)

\* the engine creates the task of the key's rule and starts it
StartTask(k) ==
    /\ st' = [st EXCEPT ![k] = "waiting"]
    /\ CASE RuleKind(k) = "TargetTask" -> TargetTask_start(k)
         [] RuleKind(k) = "InputNodeTask" -> InputNodeTask_start(k)
         [] RuleKind(k) = "ProducedNodeTask" -> ProducedNodeTask_start(k)
         [] RuleKind(k) = "CommandTask" -> CommandTask_start(k)
         [] OTHER -> MissingCommandTask_start(k)

\* a lookup that makes a node for an undeclared name without searching the table
lookupRule_dynamicNodes_Unsearched(k) ==
    IF k.kind = "Node" /\ k.name \notin DeclaredNodes
    THEN [dynamicNodes EXCEPT ![k.name] = @ + 1]
    ELSE dynamicNodes

\* BuildSystemEngineDelegate::lookupRule, Node case: a name the manifest does
\* not declare gets a node in dynamicNodes on its first lookup
lookupRule_dynamicNodes(k) ==
    IF k.kind = "Node" /\ k.name \notin DeclaredNodes /\ dynamicNodes[k.name] = 0
    THEN [dynamicNodes EXCEPT ![k.name] = @ + 1]
    ELSE dynamicNodes

\* the engine looks up the rule of a demanded key; a stored result the rule
\* accepts is kept while the key's recorded inputs are brought up to date,
\* anything else makes the task run
Scan(k) ==
    /\ buildPc = "engine"
    /\ st[k] = "idle"
    /\ Demanded(k)
    /\ dynamicNodes' = lookupRule_dynamicNodes(k)
    /\ IF cache[k].has /\ RuleIsValid(k, cache[k].value, fs)
       THEN /\ st' = [st EXCEPT ![k] = "scanning"]
            /\ UNCHANGED <<requested, isInvalid, errors, assertFailed>>
       ELSE StartTask(k)
    /\ UNCHANGED <<buildPc, buildNo, root, buildResult, executionQueue, queueAlive,
                   cancelled, failures, fs, cache, delivered, changed, discovered,
                   completions, hasMissingInput, nodeResult, jobVars, histVars, fixedVars>>

\* every recorded input of a scanned key is up to date: the stored result is
\* reused if none of them changed, otherwise the task runs
ScanFinish(k) ==
    /\ buildPc = "engine"
    /\ st[k] = "scanning"
    /\ \A d \in cache[k].deps : st[d] = "done"
    /\ IF \E d \in cache[k].deps : changed[d]
       THEN StartTask(k)
       ELSE /\ st' = [st EXCEPT ![k] = "done"]
            /\ UNCHANGED <<requested, isInvalid, errors, assertFailed>>
    /\ UNCHANGED <<buildPc, buildNo, root, buildResult, executionQueue, queueAlive,
                   cancelled, failures, fs, cache, dynamicNodes, delivered, changed,
                   discovered, completions, hasMissingInput, nodeResult, jobVars,
                   histVars, fixedVars>>

(***************************************************************************)
(* provideValue                                                            *)
(***************************************************************************)
\* a projection that passes a failed command on as a virtual input
getResultForOutput_SkippedOnly(c, n, value) ==
    IF value.kind = "SkippedCommand" THEN makeFailedInput
    ELSE IF value.kind = "FailedCommand" THEN makeVirtualInput
    ELSE makeExistingInput(value.info[1])

\* MkdirCommand::getResultForOutput (and the same projection of ExternalCommand)
getResultForOutput(c, n, value) ==
    IF value.kind = "FailedCommand" \/ value.kind = "SkippedCommand"
    THEN makeFailedInput
    ELSE IF Tool(c) = "mkdir"
         THEN makeExistingInput(value.info[1])
         ELSE makeExistingInput(
                  value.info[CHOOSE i \in 1..Len(Outputs(c)) : Outputs(c)[i] = n])

\* a provideValue that blames the first node of the target whatever the id
TargetTask_provideValue_FirstNode(k, i, value) ==
    /\ IF value.kind = "MissingInput"
       THEN /\ hasMissingInput' = [hasMissingInput EXCEPT ![k] = TRUE]
            /\ errors' = [errors EXCEPT
                             ![k] = Append(@, Err("missing input", TargetNodes(k.name)[1]))]
       ELSE UNCHANGED <<hasMissingInput, errors>>
    /\ UNCHANGED <<nodeResult, assertFailed>>

\* TargetTask::provideValue
TargetTask_provideValue(k, i, value) ==
    /\ IF value.kind = "MissingInput"
       THEN /\ hasMissingInput' = [hasMissingInput EXCEPT ![k] = TRUE]
            /\ errors' = [errors EXCEPT
                             ![k] = Append(@, Err("missing input", TargetNodes(k.name)[i]))]
       ELSE UNCHANGED <<hasMissingInput, errors>>
    /\ UNCHANGED <<nodeResult, assertFailed>>

\* a provideValue that leaves the node result as the constructor made it
ProducedNodeTask_provideValue_Ignored(k, i, value) ==
    UNCHANGED <<nodeResult, assertFailed, hasMissingInput, errors>>

\* ProducedNodeTask::provideValue: producingCommand is set by start() when
\* the node has one producer, and getResultForOutput asserts a successful
\* command once it has ruled out a failed and a skipped one
ProducedNodeTask_provideValue(k, i, value) ==
    /\ IF Len(Producers(k.name)) # 1
       THEN /\ assertFailed' = assertFailed \cup {"ProducedNodeTask::provideValue"}
            /\ UNCHANGED nodeResult
       ELSE IF value.kind \in {"FailedCommand", "SkippedCommand", "SuccessfulCommand"}
       THEN /\ nodeResult' = [nodeResult EXCEPT
                  ![k] = getResultForOutput(Producers(k.name)[1], k.name, value)]
            /\ UNCHANGED assertFailed
       ELSE /\ assertFailed' = assertFailed \cup {"getResultForOutput"}
            /\ UNCHANGED nodeResult
    /\ UNCHANGED <<hasMissingInput, errors>>

\* MkdirCommand::provideValue
MkdirCommand_provideValue(k, i, value) ==
    /\ assertFailed' = assertFailed \cup {"MkdirCommand::provideValue"}
    /\ UNCHANGED <<hasMissingInput, errors, nodeResult>>

\* ExternalCommand::provideValue
ExternalCommand_provideValue(k, i, value) ==
    UNCHANGED <<hasMissingInput, errors, nodeResult, assertFailed>>

\* CommandTask::provideValue
CommandTask_provideValue(k, i, value) ==
    IF Tool(k.name) = "mkdir"
    THEN MkdirCommand_provideValue(k, i, value)
    ELSE ExternalCommand_provideValue(k, i, value)

\* the engine delivers the value of one requested input that is complete
ProvideValue(k, i) ==
    /\ buildPc = "engine"
    /\ st[k] = "waiting"
    /\ i \in (1..Len(requested[k])) \ delivered[k]
    /\ st[requested[k][i]] = "done"
    /\ delivered' = [delivered EXCEPT ![k] = @ \cup {i}]
    /\ LET value == cache[requested[k][i]].value IN
       CASE RuleKind(k) = "TargetTask" -> TargetTask_provideValue(k, i, value)
         [] RuleKind(k) = "ProducedNodeTask" -> ProducedNodeTask_provideValue(k, i, value)
         [] RuleKind(k) = "CommandTask" -> CommandTask_provideValue(k, i, value)
         [] OTHER -> UNCHANGED <<hasMissingInput, errors, nodeResult, assertFailed>>
    /\ UNCHANGED <<buildPc, buildNo, root, buildResult, executionQueue, queueAlive,
                   cancelled, failures, fs, cache, dynamicNodes, st, requested, changed,
                   discovered, completions, isInvalid, jobVars, histVars, fixedVars>>

(***************************************************************************)
(* inputsAvailable                                                         *)
(***************************************************************************)
AllDelivered(k) == st[k] = "waiting" /\ delivered[k] = 1..Len(requested[k])

EngineFrame ==
    UNCHANGED <<buildPc, buildNo, root, buildResult, executionQueue, queueAlive,
                cancelled, fs, dynamicNodes, requested, delivered, discovered,
                hasMissingInput, nodeResult, isInvalid, quiet, lastBuild, prevRoot,
                touched, prevTouched, fixedVars>>

\* TargetTask::inputsAvailable
TargetTask_inputsAvailable(k) ==
    /\ buildPc = "engine"
    /\ RuleKind(k) = "TargetTask"
    /\ AllDelivered(k)
    /\ IF hasMissingInput[k]
       THEN /\ errors' = [errors EXCEPT ![k] = Append(@, Err("cannot build target", k.name))]
            /\ failures' = failures + 1
       ELSE UNCHANGED <<errors, failures>>
    /\ taskIsComplete(k, makeTarget, FALSE)
    /\ EngineFrame
    /\ UNCHANGED <<assertFailed, jobVars, iaCancelled>>

\* InputNodeTask::inputsAvailable
InputNodeTask_inputsAvailable(k) ==
    /\ buildPc = "engine"
    /\ RuleKind(k) = "InputNodeTask"
    /\ AllDelivered(k)
    /\ taskIsComplete(k, InputNodeTask_value(k.name, fs), FALSE)
    /\ EngineFrame
    /\ UNCHANGED <<errors, failures, assertFailed, jobVars, iaCancelled>>

\* ProducedNodeTask::inputsAvailable
ProducedNodeTask_inputsAvailable(k) ==
    /\ buildPc = "engine"
    /\ RuleKind(k) = "ProducedNodeTask"
    /\ AllDelivered(k)
    /\ IF isInvalid[k]
       THEN /\ taskIsComplete(k, makeFailedInput, FALSE)
            /\ UNCHANGED assertFailed
       ELSE /\ assertFailed' = IF nodeResult[k].kind = "Invalid"
                               THEN assertFailed \cup {"ProducedNodeTask::inputsAvailable"}
                               ELSE assertFailed
            /\ taskIsComplete(k, nodeResult[k], FALSE)
    /\ EngineFrame
    /\ UNCHANGED <<errors, failures, jobVars, iaCancelled>>

\* an inputsAvailable that completes without forcing a change
MissingCommandTask_inputsAvailable_Unforced(k) ==
    /\ buildPc = "engine"
    /\ RuleKind(k) = "MissingCommandTask"
    /\ AllDelivered(k)
    /\ taskIsComplete(k, makeInvalid, FALSE)
    /\ EngineFrame
    /\ UNCHANGED <<errors, failures, assertFailed, jobVars, iaCancelled>>

\* MissingCommandTask::inputsAvailable
MissingCommandTask_inputsAvailable(k) ==
    /\ buildPc = "engine"
    /\ RuleKind(k) = "MissingCommandTask"
    /\ AllDelivered(k)
    /\ taskIsComplete(k, makeInvalid, TRUE)
    /\ EngineFrame
    /\ UNCHANGED <<errors, failures, assertFailed, jobVars, iaCancelled>>

\* an inputsAvailable that completes a cancelled command and goes on to add
\* its job
Command_inputsAvailable_Unreturned(k) ==
    /\ iaCancelled' = [iaCancelled EXCEPT ![k.name] = cancelled]
    /\ jobPc' = [jobPc EXCEPT ![k.name] = "queued"]
    /\ IF cancelled
       THEN /\ taskIsComplete(k, makeSkippedCommand, FALSE)
            /\ UNCHANGED <<jobOk, ev>>
       ELSE /\ st' = [st EXCEPT ![k] = "running"]
            /\ UNCHANGED <<cache, changed, completions, jobOk, ev>>

\* an inputsAvailable that tells the client of a command it then skips
Command_inputsAvailable_Announced(k) ==
    /\ iaCancelled' = [iaCancelled EXCEPT ![k.name] = cancelled]
    /\ IF cancelled
       THEN /\ taskIsComplete(k, makeSkippedCommand, FALSE)
            /\ ev' = [ev EXCEPT ![k.name] = @ \o <<"commandStarted", "commandFinished">>]
            /\ UNCHANGED <<jobPc, jobOk>>
       ELSE /\ jobPc' = [jobPc EXCEPT ![k.name] = "queued"]
            /\ st' = [st EXCEPT ![k] = "running"]
            /\ UNCHANGED <<cache, changed, completions, jobOk, ev>>

\* an inputsAvailable that adds the job without asking the delegate
Command_inputsAvailable_Unasked(k) ==
    /\ iaCancelled' = [iaCancelled EXCEPT ![k.name] = cancelled]
    /\ jobPc' = [jobPc EXCEPT ![k.name] = "queued"]
    /\ st' = [st EXCEPT ![k] = "running"]
    /\ UNCHANGED <<cache, changed, completions, jobOk, ev>>

\* MkdirCommand::inputsAvailable (and ExternalCommand::inputsAvailable): a
\* cancelled build skips the command, otherwise its job is added to the queue
Command_inputsAvailable(k) ==
    /\ iaCancelled' = [iaCancelled EXCEPT ![k.name] = cancelled]
    /\ IF cancelled
       THEN /\ taskIsComplete(k, makeSkippedCommand, FALSE)
            /\ UNCHANGED jobVars
       ELSE /\ jobPc' = [jobPc EXCEPT ![k.name] = "queued"]
            /\ st' = [st EXCEPT ![k] = "running"]
            /\ UNCHANGED <<cache, changed, completions, jobOk, ev>>

\* CommandTask::inputsAvailable
CommandTask_inputsAvailable(k) ==
    /\ buildPc = "engine"
    /\ RuleKind(k) = "CommandTask"
    /\ AllDelivered(k)
    /\ Command_inputsAvailable(k)
    /\ EngineFrame
    /\ UNCHANGED <<errors, failures, assertFailed>>

(***************************************************************************)
(* Cycles                                                                  *)
(***************************************************************************)
\* a task that waits for an input it asked for
Blocked(k) == st[k] = "waiting" /\ delivered[k] # 1..Len(requested[k])

\* the first input a blocked task still waits for
WaitsFor(k) ==
    requested[k][CHOOSE i \in 1..Len(requested[k]) \ delivered[k] :
                    \A j \in 1..Len(requested[k]) \ delivered[k] : i <= j]

\* the keys from the last key of path on, each waiting for the next, up to the
\* first key that is met again; empty if the chain ends in a task that can run
RECURSIVE WaitChain(_)
WaitChain(path) ==
    LET k == path[Len(path)] IN
    IF ~Blocked(k) THEN <<>>
    ELSE IF WaitsFor(k) \in Range(path) THEN Append(path, WaitsFor(k))
    ELSE WaitChain(Append(path, WaitsFor(k)))

\* BuildSystemEngineDelegate::cycleDetected: one error that lists the keys
cycleDetected(items) ==
    errors' = [errors EXCEPT
                 ![KTarget(root)] = Append(@, Err("cycle detected while building", items))]

\* the engine has nothing left to run and the tasks that wait for each other
\* form a cycle: it reports the cycle and gives the build up
CycleDetected ==
    /\ buildPc = "engine"
    /\ ~CycleReported
    /\ \A k \in Keys : st[k] \in {"idle", "waiting", "done"}
    /\ WaitChain(<<KTarget(root)>>) # <<>>
    /\ cycleDetected(WaitChain(<<KTarget(root)>>))
    /\ UNCHANGED <<buildPc, buildNo, root, buildResult, executionQueue, queueAlive,
                   cancelled, failures, fs, engineVars, taskVars, jobVars, histVars,
                   fixedVars>>

(***************************************************************************)
(* The jobs of the execution queue                                         *)
(***************************************************************************)
Outcome(ok, writes, ops, deps, errs) ==
    [ok |-> ok, writes |-> writes, ops |-> ops, deps |-> deps, errs |-> errs]

\* llvm::sys::fs::create_directories in the job of MkdirCommand::inputsAvailable:
\* it succeeds when the path is, or can be made, a directory
MkdirCommand_body(c) ==
    IF fs[Outputs(c)[1]].kind = "file"
    THEN {Outcome(FALSE, FALSE, <<"create_directories", "error">>, {},
                  <<Err("unable to create directory", Outputs(c)[1])>>)}
    ELSE {Outcome(TRUE, isMissing(fs[Outputs(c)[1]]), <<"create_directories">>, {}, <<>>)}

\* PhonyCommand::executeExternalCommand
PhonyCommand_executeExternalCommand(c) == {Outcome(TRUE, FALSE, <<>>, {}, <<>>)}

\* ShellCommand::executeExternalCommand: the process succeeds and writes the
\* outputs, succeeds without writing them, or fails
ShellCommand_executeExternalCommand(c) ==
    {Outcome(TRUE, TRUE, <<"getExecutionQueue", "executeProcess">>, {}, <<>>),
     Outcome(TRUE, FALSE, <<"getExecutionQueue", "executeProcess">>, {}, <<>>),
     Outcome(FALSE, FALSE, <<"getExecutionQueue", "executeProcess">>, {}, <<>>)}

\* a deps-file reader that asks the engine for each dependency as an input
ClangShellCommand_processDiscoveredDependencies_AsInputs(c) ==
    {Outcome(TRUE, TRUE, <<"getFileContents", "taskNeedsInput">>,
             {KNode(n) : n \in DepsInFile(c)}, <<>>)}

\* DepsActions::error: the parser reports an error in the deps file
DepsActions_error(depsPath) ==
    [ops |-> <<"error">>, deps |-> {},
     errs |-> <<Err("error reading dependency file", depsPath)>>, numErrors |-> 1]

\* a parser callback that keeps a dependency to itself
DepsActions_actOnRuleDependency_Dropped(dependency) ==
    [ops |-> <<>>, deps |-> {}, errs |-> <<>>, numErrors |-> 0]

\* DepsActions::actOnRuleDependency: the parser has read a dependency
DepsActions_actOnRuleDependency(dependency) ==
    [ops |-> <<"taskDiscoveredDependency">>, deps |-> {KNode(dependency)},
     errs |-> <<>>, numErrors |-> 0]

\* MakefileDepsParser::parse on a deps file the parser reads as the sequence
\* events, each a dependency or "error": the callbacks in the order of the file
RECURSIVE MakefileDepsParser_parse(_, _)
MakefileDepsParser_parse(depsPath, events) ==
    IF events = <<>>
    THEN [ops |-> <<>>, deps |-> {}, errs |-> <<>>, numErrors |-> 0]
    ELSE LET a == IF events[1] = "error"
                  THEN DepsActions_error(depsPath)
                  ELSE DepsActions_actOnRuleDependency(events[1])
             b == MakefileDepsParser_parse(depsPath, Tail(events)) IN
         [ops |-> a.ops \o b.ops, deps |-> a.deps \cup b.deps,
          errs |-> a.errs \o b.errs, numErrors |-> a.numErrors + b.numErrors]

\* a deps-file reader that returns true whatever the parser reported
ClangShellCommand_processDiscoveredDependencies_Lenient(depsPath, contents) ==
    IF ~contents.readable
    THEN Outcome(FALSE, TRUE, <<"getFileContents", "error">>, {},
                 <<Err("unable to open dependencies file", depsPath)>>)
    ELSE LET a == MakefileDepsParser_parse(depsPath, contents.events) IN
         Outcome(TRUE, TRUE, <<"getFileContents">> \o a.ops, a.deps, a.errs)

\* ClangShellCommand::processDiscoveredDependencies on a deps file that
\* cannot be read, or that the parser reads as contents.events
ClangShellCommand_processDiscoveredDependencies_on(depsPath, contents) ==
    IF ~contents.readable
    THEN Outcome(FALSE, TRUE, <<"getFileContents", "error">>, {},
                 <<Err("unable to open dependencies file", depsPath)>>)
    ELSE LET a == MakefileDepsParser_parse(depsPath, contents.events) IN
         Outcome(a.numErrors = 0, TRUE, <<"getFileContents">> \o a.ops, a.deps, a.errs)

\* the deps file a run of command c may leave: none that can be read, one
\* with a dependency and an error after it, one with the dependency alone
DepsFileContents(c) ==
    {[readable |-> FALSE, events |-> <<>>],
     [readable |-> TRUE, events |-> <<"hdr", "error">>],
     [readable |-> TRUE, events |-> <<"hdr">>]}

\* ClangShellCommand::processDiscoveredDependencies: the deps file cannot be
\* read, or is parsed with or without an error
ClangShellCommand_processDiscoveredDependencies(c) ==
    {ClangShellCommand_processDiscoveredDependencies_on(DepsPath(c), contents) :
        contents \in DepsFileContents(c)}

\* ClangShellCommand::executeExternalCommand when executeShellCommand returns
\* shellOk and processDiscoveredDependencies, if it is called, yields depsOutcome
ClangShellCommand_executeExternalCommand_on(depsPath, shellOk, depsOutcome) ==
    IF ~shellOk
    THEN Outcome(FALSE, FALSE, <<"getExecutionQueue", "executeShellCommand">>, {}, <<>>)
    ELSE IF depsPath = ""
    THEN Outcome(TRUE, TRUE, <<"getExecutionQueue", "executeShellCommand">>, {}, <<>>)
    ELSE Outcome(depsOutcome.ok, TRUE,
                 <<"getExecutionQueue", "executeShellCommand">> \o depsOutcome.ops,
                 depsOutcome.deps, depsOutcome.errs)

\* ClangShellCommand::executeExternalCommand
ClangShellCommand_executeExternalCommand(c) ==
    {ClangShellCommand_executeExternalCommand_on(DepsPath(c), shellOk, o) :
        shellOk \in BOOLEAN, o \in ClangShellCommand_processDiscoveredDependencies(c)}

\* the body of a command's job
Body(c) ==
    CASE Tool(c) = "mkdir" -> MkdirCommand_body(c)
      [] Tool(c) = "shell" -> ShellCommand_executeExternalCommand(c)
      [] Tool(c) = "clang" -> ClangShellCommand_executeExternalCommand(c)
      [] OTHER -> PhonyCommand_executeExternalCommand(c)

\* what the body leaves on the filesystem
Written(c, o) ==
    [p \in Paths |->
        IF o.writes /\ p \in Range(Outputs(c))
        THEN IF Tool(c) = "mkdir" THEN DirOf(BuildStamp) ELSE FileOf(BuildStamp)
        ELSE fs[p]]

\* the job, first half: commandStarted, then the body
JobRun(c) ==
    /\ queueAlive
    /\ jobPc[c] = "queued"
    /\ \E o \in Body(c) :
          /\ ev' = [ev EXCEPT ![c] = @ \o <<"commandStarted">> \o o.ops]
          /\ jobOk' = [jobOk EXCEPT ![c] = o.ok]
          /\ fs' = Written(c, o)
          /\ errors' = [errors EXCEPT ![KCommand(c)] = @ \o o.errs]
          /\ discovered' = [discovered EXCEPT ![KCommand(c)] = @ \cup o.deps]
          /\ assertFailed' = IF "getExecutionQueue" \in Range(o.ops) /\ ~executionQueue
                             THEN assertFailed \cup {"getExecutionQueue"}
                             ELSE assertFailed
    /\ jobPc' = [jobPc EXCEPT ![c] = "ran"]
    /\ UNCHANGED <<buildPc, buildNo, root, buildResult, executionQueue, queueAlive,
                   cancelled, failures, cache, dynamicNodes, st, requested, delivered,
                   changed, completions, hasMissingInput, nodeResult, isInvalid,
                   histVars, fixedVars>>

\* the FileInfo of every output, as the finished job captures it
OutputInfos(c) == [i \in 1..Len(Outputs(c)) |-> getFileInfo(fs, Outputs(c)[i])]

\* a mkdir job that returns on failure without reporting a result
MkdirCommand_finish_Silent(c) ==
    IF ~jobOk[c]
    THEN /\ ev' = [ev EXCEPT ![c] = @ \o <<"commandFinished", "hadCommandFailure">>]
         /\ failures' = failures + 1
         /\ UNCHANGED <<st, changed, cache, completions>>
    ELSE /\ ev' = [ev EXCEPT ![c] = @ \o <<"commandFinished", "getFileInfo",
                                            "taskIsComplete">>]
         /\ UNCHANGED failures
         /\ taskIsComplete(KCommand(c),
                           makeSuccessfulCommand(OutputInfos(c), getSignature(c)), FALSE)

\* a mkdir job that reports its result before commandFinished
MkdirCommand_finish_Early(c) ==
    IF ~jobOk[c]
    THEN /\ ev' = [ev EXCEPT ![c] = @ \o <<"hadCommandFailure", "taskIsComplete",
                                            "commandFinished">>]
         /\ failures' = failures + 1
         /\ taskIsComplete(KCommand(c), makeFailedCommand, FALSE)
    ELSE /\ ev' = [ev EXCEPT ![c] = @ \o <<"getFileInfo", "taskIsComplete",
                                            "commandFinished">>]
         /\ UNCHANGED failures
         /\ taskIsComplete(KCommand(c),
                           makeSuccessfulCommand(OutputInfos(c), getSignature(c)), FALSE)

\* the job of MkdirCommand::inputsAvailable after the directory was made
MkdirCommand_finish(c) ==
    IF ~jobOk[c]
    THEN /\ ev' = [ev EXCEPT ![c] = @ \o <<"commandFinished", "hadCommandFailure",
                                            "taskIsComplete">>]
         /\ failures' = failures + 1
         /\ taskIsComplete(KCommand(c), makeFailedCommand, FALSE)
    ELSE /\ ev' = [ev EXCEPT ![c] = @ \o <<"commandFinished", "getFileInfo",
                                            "taskIsComplete">>]
         /\ UNCHANGED failures
         /\ taskIsComplete(KCommand(c),
                           makeSuccessfulCommand(OutputInfos(c), getSignature(c)), FALSE)

\* the job of ExternalCommand::inputsAvailable after the body: a failed body,
\* or an output that is missing, is a failed command
ExternalCommand_finish(c) ==
    IF ~jobOk[c]
    THEN /\ ev' = [ev EXCEPT ![c] = @ \o <<"commandFinished", "hadCommandFailure",
                                            "taskIsComplete">>]
         /\ failures' = failures + 1
         /\ taskIsComplete(KCommand(c), makeFailedCommand, FALSE)
    ELSE IF \E i \in 1..Len(Outputs(c)) : isMissing(OutputInfos(c)[i])
    THEN /\ ev' = [ev EXCEPT ![c] = @ \o <<"commandFinished", "getFileInfo",
                                            "hadCommandFailure", "taskIsComplete">>]
         /\ failures' = failures + 1
         /\ taskIsComplete(KCommand(c), makeFailedCommand, FALSE)
    ELSE /\ ev' = [ev EXCEPT ![c] = @ \o <<"commandFinished", "getFileInfo",
                                            "taskIsComplete">>]
         /\ UNCHANGED failures
         /\ taskIsComplete(KCommand(c),
                           makeSuccessfulCommand(OutputInfos(c), getSignature(c)), FALSE)

\* the job, second half: commandFinished, then the result is reported
JobFinish(c) ==
    /\ queueAlive
    /\ jobPc[c] = "ran"
    /\ IF Tool(c) = "mkdir" THEN MkdirCommand_finish(c) ELSE ExternalCommand_finish(c)
    /\ jobPc' = [jobPc EXCEPT ![c] = "exiting"]
    /\ UNCHANGED <<buildPc, buildNo, root, buildResult, executionQueue, queueAlive,
                   cancelled, errors, fs, dynamicNodes, requested, delivered, discovered,
                   hasMissingInput, nodeResult, isInvalid, assertFailed, jobOk,
                   histVars, fixedVars>>

\* the job function returns and the queue forgets the job
JobExit(c) ==
    /\ queueAlive
    /\ jobPc[c] = "exiting"
    /\ jobPc' = [jobPc EXCEPT ![c] = "none"]
    /\ UNCHANGED <<buildVars, fs, engineVars, taskVars, jobOk, ev, histVars, fixedVars>>

(***************************************************************************)
(* The specification of the build system                                   *)
(***************************************************************************)
Next ==
    \/ \E t \in TargetNames : BuildLoadFail(t)
    \/ \E t \in TargetNames : BuildStart(t)
    \/ BuildReset
    \/ BuildReturn
    \/ Cancel
    \/ \E p \in {"src", "hdr"} : ExternalWrite(p)
    \/ \E p \in {"dir"} : ExternalDelete(p)
    \/ \E k \in Keys : Scan(k)
    \/ \E k \in Keys : ScanFinish(k)
    \/ \E k \in Keys : \E i \in 1..Len(requested[k]) : ProvideValue(k, i)
    \/ \E k \in Keys : TargetTask_inputsAvailable(k)
    \/ \E k \in Keys : InputNodeTask_inputsAvailable(k)
    \/ \E k \in Keys : ProducedNodeTask_inputsAvailable(k)
    \/ \E k \in Keys : MissingCommandTask_inputsAvailable(k)
    \/ \E k \in Keys : CommandTask_inputsAvailable(k)
    \/ CycleDetected
    \/ \E c \in CommandNames : JobRun(c)
    \/ \E c \in CommandNames : JobFinish(c)
    \/ \E c \in CommandNames : JobExit(c)

Spec == Init /\ [][Next]_vars

WarmSpec == WarmInit /\ [][Next]_vars

\* the engine's thread, the workers of the execution queue and the thread in
\* build() each keep running while they have something to do
EngineStep ==
    \/ \E k \in Keys :
          \/ Scan(k)
          \/ ScanFinish(k)
          \/ \E i \in 1..Len(requested[k]) : ProvideValue(k, i)
          \/ TargetTask_inputsAvailable(k)
          \/ InputNodeTask_inputsAvailable(k)
          \/ ProducedNodeTask_inputsAvailable(k)
          \/ MissingCommandTask_inputsAvailable(k)
          \/ CommandTask_inputsAvailable(k)
    \/ CycleDetected

WorkerStep == \E c \in CommandNames : JobRun(c) \/ JobFinish(c) \/ JobExit(c)

BuildStep == BuildReset \/ BuildReturn

FairSpec ==
    Spec /\ WF_vars(EngineStep) /\ WF_vars(WorkerStep) /\ WF_vars(BuildStep)

(***************************************************************************)
(* The signature and validity functions on their own: a command is         *)
(* configured once as `old`, succeeds, and is configured again as `new`;   *)
(* the outputs on the filesystem are the ones the old run recorded.        *)
(***************************************************************************)
ArgWords == {"a", "b", "c"}

ArgLists == UNION {[1..n -> ArgWords] : n \in 0..MaxArgs}

Tools == {"shell", "clang", "phony", "mkdir"}

Configs(tool) ==
    CASE tool = "shell" ->
            {[ins |-> <<"obj">>, outs |-> <<"exe">>, args |-> l] : l \in ArgLists}
      [] tool = "clang" ->
            {[ins |-> <<"src">>, outs |-> <<"exe">>, args |-> a] : a \in {"cc -c", "cc -O"}}
      [] tool = "phony" ->
            {[ins |-> i, outs |-> <<"exe">>, args |-> <<>>] :
                i \in {<<>>, <<"src">>, <<"obj">>}}
      [] OTHER ->
            {[ins |-> <<>>, outs |-> <<o>>, args |-> <<>>] : o \in {"dir", "exe"}}

\* the filesystems the validity predicates are asked about
FileSystems ==
    {[p \in Paths |-> CASE p = "dir" -> d [] p = "exe" -> e [] OTHER -> FileOf(0)] :
        d \in {MissingInfo, FileOf(0), DirOf(0)}, e \in {MissingInfo, FileOf(0), DirOf(0)}}

\* the value a successful run under `cfg` stores
SuccessfulValue(tool, cfg, fsys) ==
    makeSuccessfulCommand([i \in 1..Len(cfg.outs) |-> getFileInfo(fsys, cfg.outs[i])],
                          Command_getSignature(tool, cfg))

\* isResultValid of the command configured as `new` on the value stored by
\* the command configured as `old`
CheckValidity(tool, old, new, fsys) ==
    /\ pin = <<>>
    /\ pin' = [tool |-> tool, old |-> old, new |-> new, fsys |-> fsys]
    /\ pout' = [oldSig |-> Command_getSignature(tool, old),
                newSig |-> Command_getSignature(tool, new),
                valid |-> Command_isResultValid(tool, new,
                                                SuccessfulValue(tool, old, fsys), fsys)]
    /\ UNCHANGED <<buildVars, fs, engineVars, taskVars, jobVars, histVars, mf, lookupVars>>

PureInit == BuildInit /\ mf = "chain" /\ PureIdle

PureNext ==
    \E tool \in Tools : \E old \in Configs(tool) : \E new \in Configs(tool) :
        \E fsys \in FileSystems : CheckValidity(tool, old, new, fsys)

PureSpec == PureInit /\ [][PureNext]_vars

(***************************************************************************)
(* The schema version on its own: the delegate reports a client version    *)
(* and the build system merges it with its own.                            *)
(***************************************************************************)
\* BuildSystemImpl::internalSchemaVersion
internalSchemaVersion == 1

\* the largest client version the assert of getMergedSchemaVersion lets pass
ClientVersionLimit == 65536

\* a uint32_t as its high and its low 16 bits
UInt32(n) == [hi |-> (n \div 2^16) % 2^16, lo |-> n % 2^16]

\* a << 16 on uint32_t: the low half moves up, the high half is lost
ShiftLeft16(a) == [hi |-> a.lo, lo |-> 0]

\* a + b on uint32_t: the carry out of the high half is lost
AddUInt32(a, b) ==
    [hi |-> (a.hi + b.hi + ((a.lo + b.lo) \div 2^16)) % 2^16,
     lo |-> (a.lo + b.lo) % 2^16]

\* BuildSystemImpl::getMergedSchemaVersion
getMergedSchemaVersion(clientVersion) ==
    AddUInt32(UInt32(internalSchemaVersion), ShiftLeft16(UInt32(clientVersion)))

\* the assert of getMergedSchemaVersion holds
getMergedSchemaVersion_accepts(clientVersion) == clientVersion <= ClientVersionLimit

\* the delegate reports version v and the schema version is asked for
MergeSchemaVersion(v) ==
    /\ pin = <<>>
    /\ pin' = [clientVersion |-> v]
    /\ pout' = [accepted |-> getMergedSchemaVersion_accepts(v),
                merged |-> getMergedSchemaVersion(v)]
    /\ UNCHANGED <<buildVars, fs, engineVars, taskVars, jobVars, histVars, mf, lookupVars>>

SchemaNext == pin = <<>> /\ \E v \in 0..(ClientVersionLimit + 1) : MergeSchemaVersion(v)

SchemaSpec == PureInit /\ [][SchemaNext]_vars

(***************************************************************************)
(* The body of a clang command on its own: the shell command succeeds or   *)
(* fails and leaves a deps file the parser reads as a sequence of          *)
(* dependencies and errors.                                                *)
(***************************************************************************)
\* the dependencies and errors the parser reads from a deps file at most
MaxDepsEvents == 3

\* what the parser reads from a deps file: the name of a dependency or "error"
DepsEvents == {"src", "hdr", "error"}

SeqsUpTo(S, n) == UNION {[1..m -> S] : m \in 0..n}

\* the deps files: one that cannot be read and one for every sequence of events
AllDepsFileContents ==
    {[readable |-> FALSE, events |-> <<>>]} \cup
    {[readable |-> TRUE, events |-> e] : e \in SeqsUpTo(DepsEvents, MaxDepsEvents)}

\* the body of a clang command configured with depsPath runs
ClangBody(depsPath, shellOk, contents) ==
    /\ pin = <<>>
    /\ pin' = [depsPath |-> depsPath, shellOk |-> shellOk, contents |-> contents]
    /\ pout' = ClangShellCommand_executeExternalCommand_on(depsPath, shellOk,
                   ClangShellCommand_processDiscoveredDependencies_on(depsPath, contents))
    /\ UNCHANGED <<buildVars, fs, engineVars, taskVars, jobVars, histVars, mf, lookupVars>>

ClangNext ==
    \E depsPath \in {"", "obj.d"} : \E shellOk \in BOOLEAN :
        \E contents \in AllDepsFileContents : ClangBody(depsPath, shellOk, contents)

ClangSpec == PureInit /\ [][ClangNext]_vars

(***************************************************************************)
(* Node creation on its own: the build-file loader and the rule lookup ask *)
(* lookupNode for the node of a name.                                      *)
(***************************************************************************)
\* the characters of the longest name
MaxNameLen == 4

\* the characters of a name: the two brackets and any other character
NameAlphabet == {"<", ">", "a"}

\* lookupNode(name, isImplicit): the loader passes isImplicit as it finds the
\* name, the Node case of lookupRule passes true
LookupNode(chars, isImplicit) ==
    /\ pin = <<>>
    /\ pin' = [chars |-> chars, isImplicit |-> isImplicit]
    /\ pout' = [isVirtual |-> lookupNode_isVirtual(chars, isImplicit)]
    /\ UNCHANGED <<buildVars, fs, engineVars, taskVars, jobVars, histVars, mf, lookupVars>>

NameNext ==
    \E chars \in SeqsUpTo(NameAlphabet, MaxNameLen) : \E isImplicit \in BOOLEAN :
        LookupNode(chars, isImplicit)

NameSpec == PureInit /\ [][NameNext]_vars

(***************************************************************************)
(* The task of an input node on its own: the engine asks whether a stored  *)
(* value is still valid and the task computes the value anew.              *)
(***************************************************************************)
\* the input nodes: a file and a virtual node
InputNames == {"src", "<in>"}

\* what the filesystem knows of the path of an input node
InputInfos == {MissingInfo, FileOf(0), FileOf(1), DirOf(0)}

\* the values the database may hold for a key
StoredValues ==
    {makeInvalid, makeVirtualInput, makeMissingInput, makeFailedInput, makeFailedCommand,
     makeSkippedCommand, makeTarget}
    \cup {makeExistingInput(i) : i \in InputInfos}
    \cup {makeSuccessfulCommand(<<i>>, 0) : i \in InputInfos}

\* the engine checks the stored value of input node n where the filesystem
\* has info at its path, and the node's task computes its value there
CheckInput(n, info, value) ==
    LET fsys == [p \in InputNames |-> info] IN
    /\ pin = <<>>
    /\ pin' = [node |-> n, info |-> info, value |-> value]
    /\ pout' = [valid |-> InputNodeTask_isResultValid(n, value, fsys),
                completes |-> InputNodeTask_value(n, fsys)]
    /\ UNCHANGED <<buildVars, fs, engineVars, taskVars, jobVars, histVars, mf, lookupVars>>

InputNext ==
    \E n \in InputNames : \E info \in InputInfos : \E value \in StoredValues :
        CheckInput(n, info, value)

InputSpec == PureInit /\ [][InputNext]_vars

(***************************************************************************)
(* The validity of a mkdir command on its own: the engine asks whether the *)
(* stored value of the command is still valid.                             *)
(***************************************************************************)
\* what the filesystem knows of the output path of the command
MkdirInfos == InputInfos \cup {DirOf(1)}

\* the values the database may hold for the command
MkdirStoredValues ==
    {makeInvalid, makeVirtualInput, makeMissingInput, makeFailedInput, makeFailedCommand,
     makeSkippedCommand, makeTarget}
    \cup {makeExistingInput(i) : i \in MkdirInfos}
    \cup {makeSuccessfulCommand(<<i>>, sig) :
             i \in MkdirInfos, sig \in {0, MkdirCommand_getSignature("dir")}}

\* the engine checks the stored value of the mkdir command of output "dir"
\* where the filesystem has info at that path
CheckMkdir(info, value) ==
    /\ pin = <<>>
    /\ pin' = [info |-> info, value |-> value]
    /\ pout' = [valid |-> MkdirCommand_isResultValid("dir", value, [p \in {"dir"} |-> info])]
    /\ UNCHANGED <<buildVars, fs, engineVars, taskVars, jobVars, histVars, mf, lookupVars>>

MkdirNext ==
    \E info \in MkdirInfos : \E value \in MkdirStoredValues : CheckMkdir(info, value)

MkdirSpec == PureInit /\ [][MkdirNext]_vars

(***************************************************************************)
(* Rule lookup on its own: the engine asks the delegate for the rule of a  *)
(* custom task, of a target or of a key of unknown kind.                   *)
(***************************************************************************)
\* the commands the custom-task list holds at most
MaxCustomTasks == 2

\* getBuildFile().getTools(): the tools of the build file, in the order the
\* loop of lookupRule visits them
getTools == <<"t1", "t2", "t3">>

\* Tool::createCustomCommand: the command a tool makes for a key, or null
createCustomCommand(tool, key) ==
    IF <<tool, key.name>> \in toolAccepts
    THEN [tool |-> tool, key |-> key.name]
    ELSE NullCommand

\* the loop of the CustomTask case ends at the last tool that makes a command
RECURSIVE lookupRule_LastTool(_, _)
lookupRule_LastTool(i, key) ==
    IF i > Len(getTools) THEN 0
    ELSE LET later == lookupRule_LastTool(i + 1, key) IN
         IF later # 0 THEN later
         ELSE IF createCustomCommand(getTools[i], key) # NullCommand THEN i ELSE 0

\* the loop of the CustomTask case from tool i on: the index of the first
\* tool whose createCustomCommand returns a command, 0 when none does
RECURSIVE lookupRule_FirstTool(_, _)
lookupRule_FirstTool(i, key) ==
    IF i > Len(getTools) THEN 0
    ELSE IF createCustomCommand(getTools[i], key) # NullCommand THEN i
    ELSE lookupRule_FirstTool(i + 1, key)

\* the CustomTask case that keeps no command of its own
lookupRule_CustomTask_Unlisted(key) ==
    LET i == lookupRule_FirstTool(1, key) IN
    IF i # 0
    THEN [abort |-> FALSE,
          rule |-> [task |-> "CommandTask", isValid |-> "CommandTask::isResultValid",
                    command |-> Len(customTasks)],
          customTasks |-> customTasks]
    ELSE [abort |-> FALSE,
          rule |-> [task |-> "MissingCommandTask", isValid |-> "false", command |-> 0],
          customTasks |-> customTasks]

\* lookupRule, case CustomTask: the command of the first tool is moved to the
\* end of customTasks and bound to a CommandTask; with no tool the rule is
\* that of a MissingCommandTask, whose IsValid returns false
lookupRule_CustomTask(key) ==
    LET i == lookupRule_FirstTool(1, key) IN
    IF i # 0
    THEN [abort |-> FALSE,
          rule |-> [task |-> "CommandTask", isValid |-> "CommandTask::isResultValid",
                    command |-> Len(customTasks) + 1],
          customTasks |-> Append(customTasks, createCustomCommand(getTools[i], key))]
    ELSE [abort |-> FALSE,
          rule |-> [task |-> "MissingCommandTask", isValid |-> "false", command |-> 0],
          customTasks |-> customTasks]

\* a Target case that makes a rule for any name
lookupRule_Target_AnyName(key) ==
    [abort |-> FALSE,
     rule |-> [task |-> "TargetTask", isValid |-> "false", command |-> 0],
     customTasks |-> customTasks]

\* lookupRule, case Target: a name the build file does not declare ends in
\* abort(), a declared one gets the rule of a TargetTask
lookupRule_Target(key) ==
    IF key.name \notin TargetNames
    THEN [abort |-> TRUE, rule |-> NoRule, customTasks |-> customTasks]
    ELSE [abort |-> FALSE,
          rule |-> [task |-> "TargetTask", isValid |-> "false", command |-> 0],
          customTasks |-> customTasks]

\* lookupRule on a custom task, a target or a key of unknown kind; the case
\* Unknown breaks out of the switch and reaches the abort() after it
lookupRule(key) ==
    CASE key.kind = "CustomTask" -> lookupRule_CustomTask(key)
      [] key.kind = "Target" -> lookupRule_Target(key)
      [] OTHER -> [abort |-> TRUE, rule |-> NoRule, customTasks |-> customTasks]

\* the engine asks for the rule of key and goes on at pc when it gets one
LookupRule(key, pc) ==
    LET r == lookupRule(key) IN
    /\ Len(r.customTasks) <= MaxCustomTasks
    /\ customTasks' = r.customTasks
    /\ IF r.abort
       THEN buildPc' = "aborted" /\ rules' = rules
       ELSE buildPc' = pc /\ rules' = [rules EXCEPT ![key] = r.rule]

\* the engine asks for the rule of a key
Lookup(key) ==
    /\ buildPc = "idle"
    /\ LookupRule(key, "idle")
    /\ UNCHANGED <<buildNo, root, buildResult, executionQueue, queueAlive, cancelled,
                   errors, failures, fs, engineVars, taskVars, jobVars, histVars,
                   mf, pin, pout, toolAccepts>>

\* build(target) up to the rule of the target: the build file loads, the
\* queue is made and the engine asks for the rule of the target's key
BuildLookup(target) ==
    /\ buildPc = "idle"
    /\ root' = target
    /\ buildNo' = buildNo + 1
    /\ buildResult' = "none"
    /\ executionQueue' = TRUE
    /\ queueAlive' = TRUE
    /\ LookupRule(KTarget(target), "engine")
    /\ UNCHANGED <<cancelled, errors, failures, fs, engineVars, taskVars, jobVars,
                   histVars, mf, pin, pout, toolAccepts>>

\* a build system whose tools make commands for any of the custom tasks
LookupInit ==
    /\ BuildInit /\ mf = "chain"
    /\ pin = <<>> /\ pout = <<>>
    /\ customTasks = <<>>
    /\ rules = [k \in LookupKeys |-> NoRule]
    /\ toolAccepts \in SUBSET (Range(getTools) \X CustomTaskNames)

LookupNext ==
    \/ \E key \in LookupKeys : Lookup(key)
    \/ \E target \in TargetNames \cup {UndeclaredTarget} : BuildLookup(target)

LookupSpec == LookupInit /\ [][LookupNext]_vars

(***************************************************************************)
(* Properties                                                              *)
(***************************************************************************)
\* C1: when the built target has a node that is a missing input, build
\* returns 'failed'.
C1_MissingInputFailsBuild ==
    (buildPc = "idle" /\ buildNo > 0 /\ lastBuild # "loadfail"
        /\ hasMissingInput[KTarget(root)])
    => buildResult = "failed"

DirectConsumers(k) ==
    CASE k.kind = "Command" ->
            {KNode(n) : n \in {m \in DeclaredNodes : Producers(m) = <<k.name>>}}
      [] k.kind = "Node" ->
            {KCommand(c) : c \in {d \in CommandNames : k.name \in Range(Inputs(d))}}
            \cup {KTarget(t) : t \in {u \in TargetNames : k.name \in Range(TargetNodes(u))}}
      [] OTHER -> {}

RECURSIVE ConsumersWithin(_, _)
ConsumersWithin(S, n) ==
    IF n = 0 THEN S
    ELSE ConsumersWithin(S \cup UNION {DirectConsumers(k) : k \in S}, n - 1)

Consumers(c) == ConsumersWithin(DirectConsumers(KCommand(c)), Cardinality(Keys))

FailedNow(c) ==
    /\ completions[KCommand(c)] > 0
    /\ cache[KCommand(c)].value.kind = "FailedCommand"

C4_DifferentArgsDifferentSignature ==
    (pin # <<>> /\ pin.tool = "shell" /\ pin.old.args # pin.new.args)
    => (pout.oldSig # pout.newSig /\ ~pout.valid)

\* C10: for every kind of command, a successful value stored under a
\* signature that differs from the command's signature is not valid.
C10_OtherSignatureNeverValid ==
    (pin # <<>> /\ pout.oldSig # pout.newSig) => ~pout.valid

Count(e, x) == Cardinality({i \in 1..Len(e) : e[i] = x})

\* C5: once the build is cancelled, no command whose body has not started
\* starts its body.
C5_NoBodyStartsOnceCancelled ==
    [][cancelled => \A c \in CommandNames : ev[c] = <<>> => ev'[c] = <<>>]_vars

\* how far the running build has come: no step of the engine, of a worker or
\* of build() takes it back
StRank(k) ==
    CASE st[k] = "idle" -> 0 [] st[k] = "scanning" -> 1 [] st[k] = "waiting" -> 2
      [] st[k] = "running" -> 3 [] OTHER -> 4

JobRank(c) ==
    CASE jobPc[c] = "queued" -> 1 [] jobPc[c] = "ran" -> 2 [] jobPc[c] = "exiting" -> 3
      [] OTHER -> IF ev[c] = <<>> THEN 0 ELSE 4

BuildRank ==
    CASE buildPc = "engine" -> IF CycleReported THEN 1 ELSE 0
      [] buildPc = "draining" -> 2
      [] OTHER -> 3

Advances ==
    /\ \A k \in Keys : StRank(k)' >= StRank(k) /\ delivered[k] \subseteq delivered'[k]
    /\ \A c \in AllCommands : JobRank(c)' >= JobRank(c)
    /\ BuildRank' >= BuildRank
    /\ \/ \E k \in Keys : StRank(k)' > StRank(k) \/ delivered'[k] # delivered[k]
       \/ \E c \in AllCommands : JobRank(c)' > JobRank(c)
       \/ BuildRank' > BuildRank

\* C5: a command whose inputsAvailable ran while the build was cancelled has
\* completed with SkippedCommand without a job and without a body; a job that
\* was enqueued can always take its next step, cancelled or not, up to its
\* completion call; and the build, whose every step is a step forward, can
\* always take a step until it has returned.
C5_SkippedAtInputsAvailable ==
    /\ [](\A c \in CommandNames :
             /\ iaCancelled[c] =>
                   /\ st[KCommand(c)] = "done"
                   /\ cache[KCommand(c)].value = makeSkippedCommand
                   /\ ev[c] = <<>>
                   /\ jobPc[c] = "none"
             /\ jobPc[c] # "none" => ENABLED (JobRun(c) \/ JobFinish(c) \/ JobExit(c))
             /\ jobPc[c] \in {"exiting", "none"} /\ ev[c] # <<>> =>
                   Count(ev[c], "taskIsComplete") = 1)
    /\ [](buildPc # "idle" => ENABLED (EngineStep \/ WorkerStep \/ BuildStep))
    /\ [][(EngineStep \/ WorkerStep \/ BuildStep) => Advances]_vars

C5_Witness ==
    /\ buildPc = "idle"
    /\ cancelled
    /\ \E c \in CommandNames : iaCancelled[c]
    /\ \E c \in CommandNames : Count(ev[c], "taskIsComplete") = 1

\* the nodes a node is made from: the inputs of the commands that produce it
NeedsOf(n) == UNION {Range(Inputs(c)) : c \in Range(Producers(n))}

RECURSIVE NeedsWithin(_, _)
NeedsWithin(nodes, steps) ==
    IF steps = 0 THEN nodes
    ELSE NeedsWithin(nodes \cup UNION {NeedsOf(n) : n \in nodes}, steps - 1)

\* the build file has a dependency cycle
Cyclic == \E n \in NodeNames : n \in NeedsWithin(NeedsOf(n), Cardinality(NodeNames))

\* C6: in a build file with no dependency cycle, while a task that was started
\* is not complete, the engine or a worker can take a step, and every such
\* step is a step forward of the build, so that under fair scheduling the
\* task completes; it completes once, after all the inputs it asked for were
\* delivered, that is after inputsAvailable, and no build returns while a
\* task is incomplete.
C6_EveryTaskCompletes ==
    /\ [](\A k \in Keys :
             /\ completions[k] > 0 =>
                   /\ completions[k] = 1
                   /\ st[k] = "done"
                   /\ delivered[k] = 1..Len(requested[k])
             /\ (st[k] \in {"scanning", "waiting", "running"} /\ ~Cyclic)
                   => buildPc = "engine")
    /\ [](((\E k \in Keys : st[k] \in {"scanning", "waiting", "running"}) /\ ~Cyclic)
            => ENABLED (EngineStep \/ WorkerStep))
    /\ [][(EngineStep \/ WorkerStep) => Advances]_vars

C6_Witness ==
    /\ \A k \in {KTarget(root), KNode("src"), KNode("exe"), KCommand("old"), KCommand("cc")} :
          completions[k] = 1
    /\ buildPc = "idle"

\* what a command body does between commandStarted and commandFinished
SideEffects ==
    {"create_directories", "getExecutionQueue", "executeProcess", "executeShellCommand",
     "getFileContents", "taskDiscoveredDependency", "error"}

\* C7: the events of a command's job are commandStarted, the side effects of
\* the body, commandFinished, hadCommandFailure if the command failed, and one
\* taskIsComplete, in this order; a finished job has one commandFinished.
C7_EventOrder ==
    \A c \in CommandNames :
        LET e == ev[c] IN
        e # <<>> =>
            /\ e[1] = "commandStarted"
            /\ Count(e, "commandStarted") = 1
            /\ Count(e, "commandFinished") <= 1
            /\ Count(e, "hadCommandFailure") <= 1
            /\ Count(e, "taskIsComplete") <= 1
            /\ \A i \in 1..Len(e) :
                  /\ e[i] \in SideEffects =>
                        \A j \in 1..Len(e) : e[j] = "commandFinished" => i < j
                  /\ e[i] = "hadCommandFailure" =>
                        \E j \in 1..(i - 1) : e[j] = "commandFinished"
                  /\ e[i] = "taskIsComplete" =>
                        /\ i = Len(e)
                        /\ \E j \in 1..(i - 1) : e[j] = "commandFinished"
            /\ jobPc[c] \in {"exiting", "none"} =>
                  /\ Count(e, "commandFinished") = 1
                  /\ Count(e, "taskIsComplete") = 1
                  /\ completions[KCommand(c)] = 1
                  /\ (cache[KCommand(c)].value = makeFailedCommand
                         <=> Count(e, "hadCommandFailure") = 1)

C7_Witness ==
    \E c \in CommandNames : \E d \in CommandNames :
        /\ jobPc[c] = "none" /\ Count(ev[c], "hadCommandFailure") = 1
        /\ "executeProcess" \in Range(ev[c])
        /\ jobPc[d] = "none" /\ Count(ev[d], "taskIsComplete") = 1
        /\ Count(ev[d], "hadCommandFailure") = 0

\* C8: a job does nothing but notify the delegate, run a process or a shell
\* command, read the filesystem and complete its task once.
C8_WorkerOnlyExecutesAndReads ==
    \A c \in CommandNames :
        Range(ev[c]) \subseteq
            {"commandStarted", "commandFinished", "hadCommandFailure", "error",
             "getExecutionQueue", "executeProcess", "executeShellCommand",
             "getFileContents", "getFileInfo", "taskIsComplete"}

\* C8: a step of a job does nothing but notify the delegate, run a process or
\* a shell command, read the filesystem, create the directory of a mkdir
\* command, report the discovered dependencies of its own clang command and
\* complete its own task once; it requests no input, delivers no value and
\* looks up no rule.
C8_WorkerStaysInItsTask ==
    [][WorkerStep =>
          /\ UNCHANGED <<requested, delivered, dynamicNodes, hasMissingInput, nodeResult,
                         isInvalid, iaCancelled, buildPc, executionQueue, queueAlive>>
          /\ \A c \in CommandNames :
                /\ Range(ev'[c]) \subseteq
                      {"commandStarted", "commandFinished", "hadCommandFailure", "error",
                       "getExecutionQueue", "executeProcess", "executeShellCommand",
                       "getFileContents", "getFileInfo", "taskIsComplete",
                       "create_directories", "taskDiscoveredDependency"}
                /\ "create_directories" \in Range(ev'[c]) => Tool(c) = "mkdir"
                /\ "taskDiscoveredDependency" \in Range(ev'[c]) => Tool(c) = "clang"
                /\ Count(ev'[c], "taskIsComplete") <= 1
          /\ \A k \in Keys :
                /\ discovered'[k] # discovered[k] =>
                      k.kind = "Command" /\ jobPc[k.name] = "queued"
                /\ st'[k] # st[k] =>
                      k.kind = "Command" /\ jobPc[k.name] = "ran" /\ st'[k] = "done"]_vars

C8_Witness ==
    /\ \E c \in CommandNames :
          /\ "taskDiscoveredDependency" \in Range(ev[c])
          /\ Count(ev[c], "taskIsComplete") = 1
          /\ discovered[KCommand(c)] # {}
    /\ buildPc = "engine"

\* C9: the execution queue exists from the start of the engine's build until
\* build returns; when build has returned the queue is destroyed, no job is
\* pending or running and no command task waits for its completion call.
C9_QueueLifetime ==
    /\ buildPc = "engine" => (executionQueue /\ queueAlive)
    /\ buildPc = "draining" => (~executionQueue /\ queueAlive)
    /\ buildPc = "idle" =>
          /\ ~executionQueue
          /\ ~queueAlive
          /\ \A c \in AllCommands : jobPc[c] = "none" /\ st[KCommand(c)] # "running"

C9_Witness ==
    /\ buildPc = "idle"
    /\ buildResult = "ok"
    /\ \E c \in CommandNames : Count(ev[c], "taskIsComplete") = 1

(***************************************************************************)
(* C11: a changed input reruns its command once                            *)
(***************************************************************************)
\* the number of times the body of c has started in the running build
BodyRuns(c) == Count(ev[c], "commandStarted")

\* build() is about to return: the engine is done and every job has left
EndOfBuild == buildPc = "draining" /\ \A c \in CommandNames : jobPc[c] = "none"

\* the running build follows an outside change of a declared input of c
InputTouched(c) == buildPc # "idle" /\ touched \in Range(Inputs(c))

\* build() is about to return from a build that asked for command c
EndOfBuildWith(c) == EndOfBuild /\ st[KCommand(c)] = "done"

\* the running build is the second one after such a change, with no change since
InputTouchedBefore(c) ==
    /\ buildPc # "idle"
    /\ prevTouched \in Range(Inputs(c))
    /\ quiet
    /\ root = prevRoot
    /\ lastBuild \in {"clean", "failed"}

\* the stored value of the changed input is invalid and its task runs anew
TouchedInputIsInvalid(c) ==
    LET k == KNode(touched)
    IN  /\ st[k] # "scanning"
        /\ st[k] = "idle" => ~RuleIsValid(k, cache[k].value, fs)
        /\ st[k] = "done" => completions[k] = 1

\* C11 as stated: when the FileInfo of a declared input of a command changes
\* between two builds, the next build finds the stored input value invalid and
\* runs the body of the command, if it asks for the command, exactly once,
\* and the build after it does not run it.
C11_ChangedInputRerunsOnce ==
    \A c \in CommandNames :
        /\ InputTouched(c) => TouchedInputIsInvalid(c) /\ BodyRuns(c) <= 1
        /\ (InputTouched(c) /\ EndOfBuildWith(c)) => BodyRuns(c) = 1
        /\ InputTouchedBefore(c) => BodyRuns(c) = 0

\* C11, amended: when the FileInfo of a declared input of a command changes
\* between two builds, the next build finds the stored input value invalid and
\* runs the body of the command, if it asks for the command, at most once,
\* exactly once unless the build was cancelled when the command's inputs
\* became available; if that build ends with every command successful, the
\* build after it does not run the body.
C11_ChangedInputRerunsOnceUnlessCancelled ==
    \A c \in CommandNames :
        /\ InputTouched(c) => TouchedInputIsInvalid(c) /\ BodyRuns(c) <= 1
        /\ (InputTouched(c) /\ EndOfBuildWith(c) /\ ~iaCancelled[c]) => BodyRuns(c) = 1
        /\ (InputTouchedBefore(c) /\ lastBuild = "clean") => BodyRuns(c) = 0

\* the second build after a change of src has ended without running cc
C11_Witness ==
    /\ EndOfBuild
    /\ InputTouchedBefore("cc")
    /\ lastBuild = "clean"
    /\ prevTouched = "src"
    /\ st[KCommand("cc")] = "done"
    /\ BodyRuns("cc") = 0

(***************************************************************************)
(* C12: mkdir runs again only when its directory is gone                   *)
(***************************************************************************)
MkdirCommands == {c \in CommandNames : Tool(c) = "mkdir"}

\* the running build follows a build that ended with mkdir successful, and
\* nobody removed the directory in between
DirectoryKept(c) ==
    buildPc # "idle" /\ lastBuild = "clean" /\ touched # Outputs(c)[1]

\* the running build follows a build that ended with mkdir successful, and the
\* directory was removed in between
DirectoryDeleted(c) ==
    buildPc # "idle" /\ lastBuild = "clean" /\ touched = Outputs(c)[1]

\* the running build is the second one after the removal, with no change since
DirectoryDeletedBefore(c) ==
    /\ buildPc # "idle"
    /\ prevTouched = Outputs(c)[1]
    /\ quiet
    /\ lastBuild \in {"clean", "failed"}

\* C12 as stated: after a build in which mkdir succeeded, builds during which
\* the directory still exists never run the mkdir body; if the directory is
\* deleted, the next build runs the body exactly once and later builds do not.
C12_MkdirIdempotent ==
    \A c \in MkdirCommands :
        /\ DirectoryKept(c) => BodyRuns(c) = 0
        /\ DirectoryDeleted(c) => BodyRuns(c) <= 1
        /\ (DirectoryDeleted(c) /\ EndOfBuild) => BodyRuns(c) = 1
        /\ DirectoryDeletedBefore(c) => BodyRuns(c) = 0

\* C12, amended: after a build in which mkdir succeeded, builds during which
\* the directory still exists never run the mkdir body; if the directory is
\* deleted, the next build runs the body at most once, exactly once unless
\* the build was cancelled when the command's inputs became available, and
\* if that build ends with mkdir successful the build after it does not run it.
C12_MkdirIdempotentUnlessCancelled ==
    \A c \in MkdirCommands :
        /\ DirectoryKept(c) => BodyRuns(c) = 0
        /\ DirectoryDeleted(c) => BodyRuns(c) <= 1
        /\ (DirectoryDeleted(c) /\ EndOfBuild /\ ~iaCancelled[c]) => BodyRuns(c) = 1
        /\ (DirectoryDeletedBefore(c) /\ lastBuild = "clean") => BodyRuns(c) = 0

\* the second build after the removal of dir has ended without running mk
C12_Witness ==
    /\ EndOfBuild
    /\ mf = "flat"
    /\ DirectoryDeletedBefore("mk")
    /\ lastBuild = "clean"
    /\ isDirectory(fs["dir"])
    /\ st[KCommand("mk")] = "done"
    /\ BodyRuns("mk") = 0

(***************************************************************************)
(* C13: a build file that fails to load                                    *)
(***************************************************************************)
\* this step is a whole build() whose build file failed to load
LoadFailureStep == buildNo' = buildNo + 1 /\ lastBuild' = "loadfail"

\* C13: if the build file fails to load, build() reports one error through the
\* delegate and returns 'failed'; it creates no execution queue, asks the
\* engine for nothing and runs no command.
C13_LoadFailureAborts ==
    [][LoadFailureStep =>
          /\ buildPc = "idle" /\ buildPc' = "idle"
          /\ buildResult' = "failed"
          /\ errors'[KTarget(root')] = <<[msg |-> "unable to load build file", name |-> ""]>>
          /\ ~executionQueue' /\ ~queueAlive'
          /\ UNCHANGED <<engineVars, taskVars, jobVars, fs>>]_vars

\* a build() has failed to load its build file after an earlier build ran
C13_Witness ==
    /\ lastBuild = "loadfail"
    /\ buildNo = 2
    /\ buildPc = "idle"
    /\ buildResult = "failed"
    /\ \E k \in Keys : st[k] = "done"

(***************************************************************************)
(* C14: a dependency cycle                                                 *)
(***************************************************************************)
\* the cycle errors the delegate has received in the last build
CycleErrors ==
    SelectSeq(errors[KTarget(root)], LAMBDA e : e.msg = "cycle detected while building")

\* items is a full key path of a cycle: it starts at the target that is built,
\* every key has asked for the next one, and it ends at the first key that
\* occurs twice
IsCyclePath(items) ==
    /\ Len(items) >= 2
    /\ items[1] = KTarget(root)
    /\ \A i \in 1..(Len(items) - 1) : items[i + 1] \in Range(requested[items[i]])
    /\ \A i, j \in 1..(Len(items) - 1) : i # j => items[i] # items[j]
    /\ \E i \in 1..(Len(items) - 1) : items[i] = items[Len(items)]

\* a build has returned after the engine gave it up with tasks waiting on
\* each other
ReturnedFromCycle ==
    /\ buildPc = "idle"
    /\ lastBuild \in {"clean", "failed"}
    /\ \E k \in Keys : Blocked(k)

\* C14 as stated: when the engine detects a dependency cycle while building a
\* target, the delegate receives one error describing the full key path of
\* the cycle and build() returns 'failed'.
C14_CycleFailsBuild ==
    ReturnedFromCycle =>
        /\ Len(CycleErrors) = 1
        /\ IsCyclePath(CycleErrors[1].name)
        /\ buildResult = "failed"

(***************************************************************************)
(* C15: what a TargetTask asks for and reports                             *)
(***************************************************************************)
\* the errors the task of key k has reported itself
TaskErrors(k) ==
    SelectSeq(errors[k], LAMBDA e : e.msg \notin {"cycle detected while building",
                                                  "unable to load build file"})

\* the task states and the delegate's records are those of the same build()
\* call (a call that fails to load clears the records and leaves the tasks)
SameBuild == buildPc # "idle" \/ lastBuild # "loadfail"

\* the positions at which the target's task was handed a MissingInput value
MissingAt(k) ==
    {i \in delivered[k] : cache[requested[k][i]].value.kind = "MissingInput"}

\* C15: a TargetTask asks for one Node key per node of the target, in declared
\* order, with the position as input id; for each MissingInput value it is
\* handed it reports 'missing input' for the node at that position; if there
\* was one, inputsAvailable reports 'cannot build target' once, after those
\* reports, and calls hadCommandFailure; otherwise the task reports nothing.
C15_TargetTaskReports ==
    /\ [](\A t \in TargetNames :
            LET k == KTarget(t)
                e == TaskErrors(k)
                missing == SelectSeq(e, LAMBDA x : x.msg = "missing input")
                cannot == SelectSeq(e, LAMBDA x : x.msg = "cannot build target")
            IN  (SameBuild /\ st[k] \in {"waiting", "done"}) =>
                  /\ requested[k] =
                        [i \in 1..Len(TargetNodes(t)) |-> KNode(TargetNodes(t)[i])]
                  /\ Len(missing) = Cardinality(MissingAt(k))
                  /\ Range(missing) =
                        {Err("missing input", TargetNodes(t)[i]) : i \in MissingAt(k)}
                  /\ hasMissingInput[k] <=> MissingAt(k) # {}
                  /\ Len(e) = Len(missing) + Len(cannot)
                  /\ IF st[k] = "done" /\ MissingAt(k) # {}
                     THEN /\ cannot = <<Err("cannot build target", t)>>
                          /\ e[Len(e)] = Err("cannot build target", t)
                          /\ failures >= 1
                     ELSE cannot = <<>>)
    /\ [][\A t \in TargetNames :
            completions'[KTarget(t)] = completions[KTarget(t)] + 1 =>
                failures' = failures + (IF hasMissingInput[KTarget(t)] THEN 1 ELSE 0)]_vars

\* a target task has completed after it was handed a MissingInput for its
\* second node
C15_Witness ==
    /\ st[KTarget(root)] = "done"
    /\ MissingAt(KTarget(root)) = {2}
    /\ errors[KTarget(root)] =
          <<Err("missing input", "src"), Err("cannot build target", root)>>
    /\ failures >= 1

(***************************************************************************)
(* C16: a target is never cached                                           *)
(***************************************************************************)
\* a value of every kind
ValuesOfEveryKind ==
    {makeInvalid, makeVirtualInput, makeMissingInput, makeFailedInput, makeFailedCommand,
     makeSkippedCommand, makeTarget, makeExistingInput(FileOf(0)),
     makeSuccessfulCommand(<<FileOf(0)>>, 0)}

\* C16: TargetTask::isResultValid is false for every value, a target task
\* completes with the Target value whether or not an input was missing, and a
\* demanded target is never reused from the database: its task runs in every
\* build.
C16_TargetNeverCached ==
    \A t \in TargetNames :
        LET k == KTarget(t) IN
        /\ \A v \in ValuesOfEveryKind \cup {cache[k].value} : ~TargetTask_isResultValid(t, v)
        /\ st[k] # "scanning"
        /\ st[k] = "done" =>
              /\ completions[k] = 1
              /\ cache[k] = Stored(makeTarget, Range(requested[k]))
        /\ (buildPc = "idle" /\ lastBuild \in {"clean", "failed"} /\ ~Cyclic /\ t = root)
              => st[k] = "done"

\* the target's task has run again, with a missing input, in a build that
\* follows a build in which it had completed with the Target value
C16_Witness ==
    /\ buildNo = 1
    /\ lastBuild \in {"clean", "failed"}
    /\ quiet
    /\ buildPc = "draining"
    /\ st[KTarget(root)] = "done"
    /\ completions[KTarget(root)] = 1
    /\ hasMissingInput[KTarget(root)]

(***************************************************************************)
(* C17: a command the build file no longer has                             *)
(***************************************************************************)
\* C17: the rule of a Command key whose name is not in the build file accepts
\* no stored value, and its task asks for nothing and completes with Invalid
\* as a forced change, so that no key whose stored result depends on it is
\* reused; a Command key of the build file gets a CommandTask.
C17_MissingCommandForcesRebuild ==
    /\ \A c \in AllCommands \cup {"old"} :
          LET k == KCommand(c) IN
          IF c \in CommandNames
          THEN RuleKind(k) = "CommandTask"
          ELSE /\ RuleKind(k) = "MissingCommandTask"
               /\ \A v \in ValuesOfEveryKind \cup {cache[k].value} : ~RuleIsValid(k, v, fs)
               /\ st[k] \notin {"scanning", "running"}
               /\ requested[k] = <<>>
               /\ st[k] = "done" =>
                     /\ completions[k] = 1
                     /\ cache[k].value = makeInvalid
                     /\ changed[k]
    /\ \A p \in Keys :
          (st[p] = "done" /\ completions[p] = 0) =>
              \A d \in cache[p].deps : RuleKind(d) # "MissingCommandTask"

\* exe, whose stored result depended on Command("old"), was built again after
\* the task of Command("old") completed with an Invalid value equal to the
\* stored one
C17_Witness ==
    /\ st[KCommand("old")] = "done"
    /\ changed[KCommand("old")]
    /\ st[KNode("exe")] = "done"
    /\ completions[KNode("exe")] = 1
    /\ KCommand("old") \notin cache[KNode("exe")].deps

(***************************************************************************)
(* C18: a node with more than one producer                                 *)
(***************************************************************************)
\* the task of key k has been started in the build the records belong to
TaskStarted(k) == SameBuild /\ (st[k] = "waiting" \/ completions[k] = 1)

\* C18: the task of a node with more than one producer reports one 'unable
\* to build node' error that names the node and its first two producers,
\* asks for no input and completes with FailedInput; the task of a node with
\* exactly one producer asks for exactly the key of that command, as input 0,
\* and reports no error.
C18_AmbiguousProducer ==
    \A n \in NodeNames :
        LET k == KNode(n)
            p == Producers(n)
        IN  (RuleKind(k) = "ProducedNodeTask" /\ TaskStarted(k)) =>
               IF Len(p) = 1
               THEN /\ requested[k] = <<KCommand(p[1])>>
                    /\ errors[k] = <<>>
                    /\ ~isInvalid[k]
               ELSE /\ requested[k] = <<>>
                    /\ errors[k] = <<Err("unable to build node", <<n, p[1], p[2]>>)>>
                    /\ st[k] = "done" =>
                          cache[k].value = makeFailedInput /\ completions[k] = 1

\* the task of exe, which cc and ld both produce, has completed
C18_Witness ==
    /\ mf = "dup"
    /\ Producers("exe") = <<"cc", "ld">>
    /\ st[KNode("exe")] = "done"
    /\ completions[KNode("exe")] = 1
    /\ cache[KNode("exe")].value = makeFailedInput
    /\ st[KTarget(root)] = "done"

(***************************************************************************)
(* C19: the merged schema version                                          *)
(***************************************************************************)
\* C19 as stated: for every client version v that getMergedSchemaVersion
\* accepts, the merged version is the 32-bit value 1 + v * 2^16: its low 16
\* bits are the internal version, its high 16 bits are v, and no other
\* accepted client version gives the same merged version.
C19_MergedVersionLayout ==
    (pin # <<>> /\ pout.accepted) =>
        /\ pout.merged.lo = internalSchemaVersion
        /\ pout.merged.hi = pin.clientVersion
        /\ pout.merged.hi \in 0..(2^16 - 1) /\ pout.merged.lo \in 0..(2^16 - 1)
        /\ pin.clientVersion # 0 => pout.merged # getMergedSchemaVersion(0)

(***************************************************************************)
(* C20: one node object per name                                           *)
(***************************************************************************)
\* the rule of Node(n) has been looked up since the system was constructed
LookedUp(n) == st[KNode(n)] # "idle"

\* C20: a name of the build file's node table never gets a dynamic node; a
\* name that is not in it gets a dynamic node on its first lookup and the same
\* one on every later lookup, so that the table holds at most one node per
\* name and a node, once made, is never made again.
C20_OneNodePerName ==
    /\ [](\A n \in NodeNames :
            /\ dynamicNodes[n] <= 1
            /\ n \in DeclaredNodes => dynamicNodes[n] = 0
            /\ (n \notin DeclaredNodes /\ LookedUp(n)) => dynamicNodes[n] = 1)
    /\ [][\A n \in NodeNames : dynamicNodes[n] = 1 => dynamicNodes'[n] = 1]_vars

\* hdr, which the build file does not declare, has been looked up in a second
\* build and resolves to the node made in the first
C20_Witness ==
    /\ buildNo = 1
    /\ buildPc = "engine"
    /\ "hdr" \notin DeclaredNodes
    /\ st[KNode("hdr")] = "done"
    /\ dynamicNodes["hdr"] = 1

(***************************************************************************)
(* C21: the task of a node follows its producers                           *)
(***************************************************************************)
\* C21: the rule of a Node key creates an InputNodeTask exactly when the node
\* has no producers and a ProducedNodeTask otherwise; the assertion of
\* InputNodeTask::start never fails, every dynamic node is built by an
\* InputNodeTask, and a ProducedNodeTask that has started has a producer, and
\* two of them when it reports the node as ambiguous.
C21_NodeTaskFollowsProducers ==
    /\ "InputNodeTask::start" \notin assertFailed
    /\ \A n \in NodeNames :
          LET k == KNode(n) IN
          /\ RuleKind(k) = "InputNodeTask" <=> Producers(n) = <<>>
          /\ RuleKind(k) = "ProducedNodeTask" <=> Producers(n) # <<>>
          /\ dynamicNodes[n] >= 1 =>
                RuleKind(k) = "InputNodeTask" /\ Producers(n) = <<>>
          /\ (RuleKind(k) = "ProducedNodeTask" /\ TaskStarted(k)) =>
                /\ Len(Producers(n)) >= 1
                /\ isInvalid[k] => Len(Producers(n)) >= 2
                /\ requested[k] # <<>> => Len(Producers(n)) = 1

\* the dynamic node hdr and the node src were built by an InputNodeTask and
\* the produced node obj by a ProducedNodeTask
C21_Witness ==
    /\ dynamicNodes["hdr"] = 1
    /\ completions[KNode("hdr")] = 1
    /\ completions[KNode("src")] = 1
    /\ completions[KNode("obj")] = 1
    /\ RuleKind(KNode("obj")) = "ProducedNodeTask"
    /\ buildPc = "idle"

\* the places in the build file's tool list of the tools that make a command
\* for the custom task n
AcceptingTools(n) == {i \in 1..Len(getTools) : <<getTools[i], n>> \in toolAccepts}

\* the rule a looked-up custom task is bound to is that of the first tool, in
\* the order of the tool list, that makes a command for it; with no such tool
\* it is a MissingCommandTask that is never valid
CustomRuleFollowsTools ==
    \A n \in CustomTaskNames :
        LET r == rules[KCustomTask(n)]
            acc == AcceptingTools(n) IN
        r # NoRule =>
            IF acc = {}
            THEN r.task = "MissingCommandTask" /\ r.isValid = "false"
            ELSE /\ r.task = "CommandTask"
                 /\ r.command \in 1..Len(customTasks)
                 /\ \E i \in acc :
                       /\ \A j \in acc : i <= j
                       /\ customTasks[r.command] = [tool |-> getTools[i], key |-> n]

\* a step keeps every command of the custom-task list in its place, adds one
\* command when it binds a custom task some tool accepts and none otherwise
CustomTasksOnlyGrow ==
    /\ Len(customTasks') >= Len(customTasks)
    /\ SubSeq(customTasks', 1, Len(customTasks)) = customTasks
    /\ \A n \in CustomTaskNames :
          rules'[KCustomTask(n)] # rules[KCustomTask(n)] =>
              IF AcceptingTools(n) = {}
              THEN customTasks' = customTasks
              ELSE /\ Len(customTasks') = Len(customTasks) + 1
                   /\ rules'[KCustomTask(n)].command = Len(customTasks')
    /\ customTasks' # customTasks =>
          \E n \in CustomTaskNames : rules'[KCustomTask(n)] # rules[KCustomTask(n)]

\* C22: a custom task is bound to the command of the first tool of the build
\* file's tool list that accepts its key; the command is appended to the
\* custom-task list and no step removes or moves a command of the list; with
\* no accepting tool the key is bound to a never-valid MissingCommandTask and
\* the list stays as it is
C22_CustomTaskBoundToFirstTool ==
    []CustomRuleFollowsTools /\ [][CustomTasksOnlyGrow]_vars

\* gen is bound to the command of t2, which t3 would have made too, link is
\* bound to a MissingCommandTask, and the list holds two commands
C22_Witness ==
    /\ AcceptingTools("gen") = {2, 3}
    /\ AcceptingTools("link") = {}
    /\ rules[KCustomTask("gen")].task = "CommandTask"
    /\ rules[KCustomTask("gen")].command = 2
    /\ rules[KCustomTask("link")].task = "MissingCommandTask"
    /\ customTasks = <<[tool |-> "t2", key |-> "gen"], [tool |-> "t2", key |-> "gen"]>>

\* the keys whose lookup is fatal: the target no build file declares and the
\* key of unknown kind
FatalKeys == {KTarget(UndeclaredTarget), KUnknown}

\* from an idle build system the lookup of a fatal key can only end the
\* program, and so can build() on the undeclared target
FatalLookupAborts ==
    buildPc = "idle" =>
        /\ \A key \in FatalKeys :
              /\ ENABLED (Lookup(key) /\ buildPc' = "aborted")
              /\ ~ENABLED (Lookup(key) /\ buildPc' # "aborted")
        /\ ENABLED (BuildLookup(UndeclaredTarget) /\ buildPc' = "aborted")
        /\ ~ENABLED (BuildLookup(UndeclaredTarget) /\ buildPc' # "aborted")

\* the ended program takes no step and build() has returned nothing
AbortedIsFinal ==
    buildPc = "aborted" =>
        /\ ~ENABLED LookupNext
        /\ root = UndeclaredTarget => buildResult \notin {"ok", "failed"}

\* C23: the lookup of the rule of an undeclared target, and of a key of
\* unknown kind, returns no rule and ends the program; build() on an
\* undeclared target of a loaded build file therefore returns neither ok nor
\* failed, and nothing runs after it
C23_UndeclaredTargetIsFatal ==
    /\ \A key \in FatalKeys : rules[key] = NoRule
    /\ FatalLookupAborts
    /\ AbortedIsFinal

\* build() was called on the undeclared target after a custom task and the
\* declared target had got their rules, and the program has ended in it
C23_Witness ==
    /\ buildPc = "aborted"
    /\ root = UndeclaredTarget
    /\ buildNo = 1
    /\ executionQueue
    /\ rules[KTarget("all")].task = "TargetTask"
    /\ customTasks # <<>>

\* the errors the body reported are exactly n parse errors of the deps file
ParseErrorsReported(errs, depsPath, n) ==
    /\ Len(errs) = n
    /\ \A i \in 1..Len(errs) : errs[i] = Err("error reading dependency file", depsPath)

\* C24: the body of a clang command succeeds exactly when the shell command
\* succeeded and either no deps path is configured or the deps file was read
\* and parsed without an error; the deps file is not read after a failed shell
\* command; a deps file that cannot be read is reported as one error and
\* every parse error as one error of its own
C24_ClangBodyOutcome ==
    pin # <<>> =>
        LET parseErrors == Count(pin.contents.events, "error")
            depsUsed == pin.shellOk /\ pin.depsPath # "" IN
        /\ pout.ok <=> /\ pin.shellOk
                       /\ \/ pin.depsPath = ""
                          \/ pin.contents.readable /\ parseErrors = 0
        /\ "getFileContents" \in Range(pout.ops) <=> depsUsed
        /\ ~depsUsed => pout.errs = <<>>
        /\ (depsUsed /\ ~pin.contents.readable) =>
              pout.errs = <<Err("unable to open dependencies file", pin.depsPath)>>
        /\ (depsUsed /\ pin.contents.readable) =>
              /\ ParseErrorsReported(pout.errs, pin.depsPath, parseErrors)
              /\ Count(pout.ops, "error") = parseErrors

\* the shell command succeeded and the deps file was read with two parse
\* errors around a dependency: the body fails and reports both
C24_Witness ==
    /\ pin # <<>>
    /\ pin.shellOk /\ pin.depsPath = "obj.d"
    /\ pin.contents = [readable |-> TRUE, events |-> <<"error", "hdr", "error">>]
    /\ ~pout.ok
    /\ Len(pout.errs) = 2
    /\ pout.deps = {KNode("hdr")}

\* the operations of the last body of c that has run
RECURSIVE LastBody(_)
LastBody(e) ==
    IF e = <<>> THEN <<>>
    ELSE IF e[Len(e)] = "commandStarted" THEN <<>>
    ELSE Append(LastBody(SubSeq(e, 1, Len(e) - 1)), e[Len(e)])

\* the clang commands that are configured with a deps file
DepsCommands == {c \in CommandNames : Tool(c) = "clang" /\ DepsPath(c) # ""}

\* the body of c has read its deps file: each entry of the file was passed to
\* taskDiscoveredDependency as the key of its node
EntriesAreDiscovered(c) ==
    (jobPc[c] = "ran" /\ "getFileContents" \in Range(LastBody(ev[c]))
        /\ "taskDiscoveredDependency" \in Range(LastBody(ev[c]))) =>
        /\ Count(LastBody(ev[c]), "taskDiscoveredDependency") = Cardinality(DepsInFile(c))
        /\ discovered[KCommand(c)] = {KNode(n) : n \in DepsInFile(c)}

\* the running build follows an outside change of a header that only the
\* deps file of c names
HeaderTouched(c) ==
    /\ buildPc # "idle"
    /\ touched \in DepsInFile(c)
    /\ touched \notin Range(Inputs(c))

\* C25 as stated: every entry of the deps file of a clang command is passed
\* to taskDiscoveredDependency, and a build that follows a change of a header
\* named only in the deps file and asks for the command runs its body.
C25_HeaderChangeReruns ==
    \A c \in DepsCommands :
        /\ EntriesAreDiscovered(c)
        /\ (HeaderTouched(c) /\ EndOfBuildWith(c)) => BodyRuns(c) = 1

\* C25, amended: every entry of the deps file of a clang command is passed
\* to taskDiscoveredDependency, and a build that follows a change of a header
\* named only in the deps file and asks for the command runs its body once,
\* unless the build was cancelled when the command's inputs became available.
C25_HeaderChangeRerunsUnlessCancelled ==
    \A c \in DepsCommands :
        /\ EntriesAreDiscovered(c)
        /\ (HeaderTouched(c) /\ EndOfBuildWith(c) /\ ~iaCancelled[c]) => BodyRuns(c) = 1

\* a clean build recorded hdr for cc, hdr changed, and the next build has run
\* the body of cc again and found hdr in the deps file again
C25_Witness ==
    /\ HeaderTouched("cc") /\ EndOfBuildWith("cc")
    /\ lastBuild = "clean"
    /\ ~iaCancelled["cc"]
    /\ BodyRuns("cc") = 1
    /\ completions[KNode("hdr")] = 1
    /\ discovered[KCommand("cc")] = {KNode("hdr")}

\* the name matches ^<.*>$: a "<", then any characters, then a ">" of its own
MatchesBrackets(chars) ==
    \E i \in 1..Len(chars) : \E j \in 1..Len(chars) :
        /\ i = 1 /\ chars[i] = "<"
        /\ j = Len(chars) /\ chars[j] = ">"
        /\ i < j

\* C26: the node lookupNode makes for a name is virtual exactly when the name
\* starts with "<" and ends with ">"; the empty name and the names "<" and
\* ">" are not virtual, and isImplicit makes no difference
C26_VirtualIffBracketed ==
    pin # <<>> =>
        /\ pout.isVirtual <=> MatchesBrackets(pin.chars)
        /\ pin.chars \in {<<>>, <<"<">>, <<">">>} => ~pout.isVirtual
        /\ pout.isVirtual = lookupNode_isVirtual(pin.chars, ~pin.isImplicit)

\* the dynamic node of the name "<a>>" is virtual
C26_Witness ==
    /\ pin # <<>>
    /\ pin.chars = <<"<", "a", ">", ">">>
    /\ pin.isImplicit
    /\ pout.isVirtual

\* C27: the validity routine of an input node accepts a stored value exactly
\* when it is the value the node's task completes with on the same
\* filesystem: VirtualInput for a virtual node whatever the filesystem holds,
\* MissingInput for an absent file, ExistingInput with the current FileInfo
\* for a present one
C27_ValidIffRecomputedValue ==
    pin # <<>> =>
        /\ pout.valid <=> pin.value = pout.completes
        /\ pout.completes =
              IF MatchesBrackets(NameChars(pin.node)) THEN makeVirtualInput
              ELSE IF pin.info = MissingInfo THEN makeMissingInput
              ELSE [kind |-> "ExistingInput", info |-> <<pin.info>>, sig |-> 0]

\* the stored value of src is that of an existing file with an older FileInfo:
\* it is not valid and the task completes with the current one
C27_Witness ==
    /\ pin # <<>>
    /\ pin.node = "src"
    /\ pin.info = FileOf(1)
    /\ pin.value = makeExistingInput(FileOf(0))
    /\ ~pout.valid
    /\ pout.completes = makeExistingInput(FileOf(1))

\* the nodes some command produces
ProducedNodes == {n \in NodeNames : RuleKind(KNode(n)) = "ProducedNodeTask"}

\* the running or the last build took the result of key k from the database
ServedFromCache(k) == SameBuild /\ st[k] = "done" /\ completions[k] = 0

\* the running or the last build has run the task of key k
Rebuilt(k) == st[k] = "done" /\ completions[k] = 1

\* the task of node n has reported that several commands produce it
AmbiguousProducerReported(n) ==
    Count([i \in 1..Len(errors[KNode(n)]) |-> errors[KNode(n)][i].msg],
          "unable to build node") = 1

\* C28: the stored value of a produced node is invalid exactly when it is
\* FailedInput; so a build never takes from the database the value of a node
\* that several commands produce, or whose producing command failed or was
\* skipped: it runs the node's task again, which reports the ambiguous
\* producers again
C28_FailedNodeIsRebuilt ==
    \A n \in ProducedNodes :
        LET k == KNode(n) IN
        /\ \A v \in ValuesOfEveryKind :
              ProducedNodeTask_isResultValid(n, v) <=> v.kind # "FailedInput"
        /\ ServedFromCache(k) =>
              /\ cache[k].value.kind # "FailedInput"
              /\ Len(Producers(n)) = 1
              /\ cache[KCommand(Producers(n)[1])].value.kind
                    \notin {"FailedCommand", "SkippedCommand"}
        /\ (Len(Producers(n)) >= 2 /\ st[k] = "done" /\ SameBuild) =>
              /\ Rebuilt(k)
              /\ AmbiguousProducerReported(n)
              /\ cache[k].value.kind = "FailedInput"

\* the second build of the build file in which cc and ld both produce exe has
\* run the task of exe again and reported the two producers again
C28_Witness ==
    /\ mf = "dup" /\ buildNo = 2 /\ buildPc = "idle"
    /\ cache[KNode("exe")].value.kind = "FailedInput"
    /\ Rebuilt(KNode("exe"))
    /\ AmbiguousProducerReported("exe")

\* the place of node n among the outputs of command c
OutputIndex(c, n) == CHOOSE i \in 1..Len(Outputs(c)) : Outputs(c)[i] = n

\* the value the task of a node completes with, given the value of its one
\* producer: the failure of a failed or skipped command, else the FileInfo
\* the command recorded for the node
NodeValueOf(c, n, commandValue) ==
    IF commandValue.kind \in {"FailedCommand", "SkippedCommand"}
    THEN [kind |-> "FailedInput", info |-> <<>>, sig |-> 0]
    ELSE [kind |-> "ExistingInput", info |-> <<commandValue.info[OutputIndex(c, n)]>>,
          sig |-> 0]

\* C29: a produced-node task with one producer receives a FailedCommand, a
\* SkippedCommand or a SuccessfulCommand value and completes with FailedInput
\* for the first two and with ExistingInput of the output's recorded FileInfo
\* for the third; it never completes with Invalid, and the assertions of
\* provideValue, getResultForOutput and inputsAvailable hold
C29_NodeValueFollowsProducer ==
    /\ assertFailed \cap {"ProducedNodeTask::provideValue", "getResultForOutput",
                          "ProducedNodeTask::inputsAvailable"} = {}
    /\ \A n \in ProducedNodes :
          LET k == KNode(n) IN
          /\ (Rebuilt(k) /\ SameBuild) => cache[k].value.kind # "Invalid"
          /\ (Rebuilt(k) /\ SameBuild /\ Len(Producers(n)) = 1) =>
                LET c == Producers(n)[1]
                    commandValue == cache[KCommand(c)].value IN
                /\ st[KCommand(c)] = "done"
                /\ commandValue.kind \in {"FailedCommand", "SkippedCommand",
                                           "SuccessfulCommand"}
                /\ cache[k].value = NodeValueOf(c, n, commandValue)
          /\ nodeResult[k].kind # "Invalid" => delivered[k] # {}

\* in one build cc failed and ld succeeded: obj completed with FailedInput and
\* exe with the FileInfo ld recorded for it
C29_Witness ==
    /\ mf = "chain" /\ buildPc = "idle"
    /\ Rebuilt(KNode("obj")) /\ Rebuilt(KNode("exe"))
    /\ cache[KCommand("cc")].value.kind = "FailedCommand"
    /\ cache[KNode("obj")].value.kind = "FailedInput"
    /\ cache[KCommand("ld")].value.kind = "SuccessfulCommand"
    /\ cache[KNode("exe")].value.kind = "ExistingInput"

\* C30: the stored value of a mkdir command is valid exactly when it is a
\* SuccessfulCommand and the output path is there and is a directory; the
\* stored FileInfo plays no part, so a directory whose metadata changed keeps
\* the value valid, and a FailedCommand or SkippedCommand is never valid
C30_MkdirValidIffDirectory ==
    pin # <<>> =>
        /\ pout.valid <=> /\ pin.value.kind = "SuccessfulCommand"
                          /\ pin.info.kind = "dir"
        /\ pin.value.kind \in {"FailedCommand", "SkippedCommand"} => ~pout.valid
        /\ (pin.value.kind = "SuccessfulCommand" /\ pin.info.kind = "dir"
               /\ pin.value.info[1] # pin.info) => pout.valid

\* the directory has a newer mtime than the one the command recorded and the
\* stored value is valid all the same
C30_Witness ==
    /\ pin # <<>>
    /\ pin.info = DirOf(1)
    /\ pin.value = makeSuccessfulCommand(<<DirOf(0)>>, MkdirCommand_getSignature("dir"))
    /\ pout.valid

\* the step is the inputsAvailable of command c
InputsAvailableStep(c) ==
    st[KCommand(c)] = "waiting" /\ st'[KCommand(c)] \in {"running", "done"}

\* in the running or the last build command c was skipped at inputsAvailable:
\* its value is SkippedCommand, it has no job and the client heard nothing of it
SkippedQuietly(c) ==
    /\ st[KCommand(c)] = "done"
    /\ cache[KCommand(c)].value = makeSkippedCommand
    /\ completions[KCommand(c)] = 1
    /\ jobPc[c] = "none"
    /\ ev[c] = <<>>

\* C31: when the delegate reports cancellation as the inputsAvailable of a
\* command is called, that step completes the command with SkippedCommand,
\* adds no job, calls none of commandStarted, commandFinished and
\* hadCommandFailure and changes no file; the command stays without a job
\* and without a call for the rest of the build
C31_CancelledCommandIsSkipped ==
    /\ [](\A c \in AllCommands : (SameBuild /\ iaCancelled[c]) => SkippedQuietly(c))
    /\ [][\A c \in AllCommands :
             (InputsAvailableStep(c) /\ cancelled) =>
                 /\ st'[KCommand(c)] = "done"
                 /\ cache'[KCommand(c)].value = makeSkippedCommand
                 /\ jobPc' = jobPc /\ ev' = ev
                 /\ failures' = failures
                 /\ fs' = fs]_vars

\* the build was cancelled after the job of cc had run: ld was skipped at its
\* inputsAvailable while cc had started and finished
C31_Witness ==
    /\ mf = "chain" /\ buildPc = "draining"
    /\ cancelled
    /\ ~iaCancelled["cc"] /\ BodyRuns("cc") = 1
    /\ iaCancelled["ld"] /\ SkippedQuietly("ld")

\* the commands whose body asks the build system for the execution queue
QueueUsers == {c \in AllCommands : Tool(c) \in {"shell", "clang"}}

\* the job of c has called getExecutionQueue in the running build
AskedForQueue(c) == "getExecutionQueue" \in Range(ev[c])

\* C32: whenever the body of a job calls getExecutionQueue the pointer of the
\* build system is set: the assertion of getExecutionQueue never fails, and a
\* job whose body has yet to run exists only while the engine is building and
\* the pointer is set; the jobs that are still there when build() releases
\* the queue have their body behind them
C32_QueueSetWhenAsked ==
    /\ "getExecutionQueue" \notin assertFailed
    /\ \A c \in QueueUsers :
          /\ jobPc[c] = "queued" => executionQueue /\ buildPc = "engine"
          /\ (jobPc[c] # "none" /\ ~executionQueue) =>
                /\ jobPc[c] = "exiting"
                /\ AskedForQueue(c)
                /\ st[KCommand(c)] = "done"

\* build() has cleared the pointer and waits in the destructor of the queue
\* for the job of ld, which asked for the queue before and is about to return
C32_Witness ==
    /\ buildPc = "draining"
    /\ ~executionQueue /\ queueAlive
    /\ jobPc["ld"] = "exiting"
    /\ AskedForQueue("ld") /\ AskedForQueue("cc")

\* the engine has called inputsAvailable on the task of k: the call is the
\* step itself, or it was made earlier and added the job that now reports
InputsAvailableCalled(k) ==
    \/ AllDelivered(k)
    \/ st[k] = "running" /\ k.kind = "Command" /\ jobPc[k.name] = "ran"

\* C33: the task of a key calls taskIsComplete at most once in a build and
\* not before the engine has called inputsAvailable on it: a task that is
\* started and waits for its inputs, or whose job is still to report, has not
\* completed, and start, providePriorValue and provideValue complete nothing
C33_CompletesOnceAfterInputsAvailable ==
    /\ [](\A k \in Keys :
             /\ completions[k] <= 1
             /\ st[k] \in {"scanning", "waiting", "running"} => completions[k] = 0)
    /\ [][\A k \in Keys :
             completions'[k] > completions[k] =>
                 /\ InputsAvailableCalled(k)
                 /\ st'[k] = "done"]_vars

\* one build that nobody cancelled has completed, once each, the target, an
\* input node, a produced node and the mkdir command, whose job has reported
C33_Witness ==
    /\ mf = "flat" /\ buildPc = "draining" /\ ~cancelled
    /\ "create_directories" \in Range(ev["mk"])
    /\ \A k \in {KTarget("all"), KNode("src"), KNode("dir"), KCommand("mk")} :
          st[k] = "done" /\ completions[k] = 1
====
